---- MODULE Spec2Model ----
(***************************************************************************)
(* A model of the reels scraper: the dedup cache (ReelCollector), the CSV  *)
(* storage's dedup-aware savePost, the navigation engine (ReelNavigator)   *)
(* and the scrape loop (InstagramReelsScraper.scrapeReelsFeed).            *)
(*                                                                         *)
(* JavaScript runs the loop and the interception callback on one thread:   *)
(* the callback (sendDataToNode) runs only while the loop is suspended at  *)
(* an await.  pc names the await (or the synchronous block) the loop is    *)
(* at; the environment's actions are enabled only at the awaits.           *)
(***************************************************************************)
EXTENDS Integers, Sequences, FiniteSets, TLC

(***************************************************************************)
(* Bounds of the model.                                                    *)
(***************************************************************************)
\* the largest session target (reelsToCollect) a session is started with
MaxTarget == 2
\* how many items the feed of a session has
MaxFeed == 2
\* how many times the platform moves the page off the feed by itself
MaxRedirects == 1
\* how many addReel calls the collector's driver makes
MaxAdds == 4
\* how many advance calls the end-to-end scenario's log keeps
MaxLog == 6
\* how many savePost calls the storage's driver makes
MaxSaves == 2
\* how many packets the interception bridge's driver delivers
MaxPackets == 2
\* how many items a packet carries at most
MaxItems == 2
\* how deep below `data` an unrecognized packet nests its item at most
MaxDepth == 6
\* failed advances in a row the backoff is computed for
MaxBackoffs == 4
\* the jitter is drawn in steps of as many milliseconds
JitterStep == 50
\* the tags one place of an intercepted item holds at most
MaxTags == 2
\* how many savePost calls the posts file's driver makes
MaxCsvCalls == 3
\* how many personas loadAllPersonas returns at most
MaxPersonas == 3
\* how many records the cache holds when the drain step is run on its own
MaxCached == 5
\* and the largest session target there
MaxDrainTarget == 5
\* the checks of verifyNavigation within which the page may move on
MaxChecks == 29
\* how many fetch calls the page makes
MaxFetches == 3
\* how many savePost and hasPost calls are made on the storage's id cache
MaxCacheCalls == 3

(***************************************************************************)
(* Program constants.                                                      *)
(***************************************************************************)
maxFailures == 5
maxConsecutiveNavigationFailures == 3
\* defaults.scraping: the waits between personas, in milliseconds
delayBetweenPersonas == 60000
suspensionCooldown == 300000
\* the data-arrival poll: for (let i = 0; i < 10; i++)
PollMax == 10
\* its waits: Math.min(300 + (i * 100), 1000), and up to 200 more
PollBase == 300
PollStep == 100
PollCap == 1000
PollJitter == 200
\* the drain step: Math.min(3, reelsToCollect - reelsCollected)
DrainMax == 3
\* verifyNavigation: checkInterval, the default bound, PageDown's bound,
\* the media heuristic's floor and its share of the bound (70%)
checkInterval == 300
DefaultMaxWait == 8000
PageDownMaxWait == 6000
VideoFloor == 2000
VideoShare == 7
\* maxRetries of the three advance calls of the loop
\* findMediaObjects: if (depth > 5) return []
SearchDepth == 5
\* the backoff before the retry of a failed advance, in milliseconds
baseDelay == 2000
maxDelay == 15000
jitterRange == 2000
FirstRetries == 3
RetryRetries == 5
RecoverRetries == 2

(***************************************************************************)
(* Values.                                                                 *)
(***************************************************************************)
\* the items' platform-assigned codes, in the order the page moves
\* through them
Items == <<"A", "B", "C">>
Ids == {Items[i] : i \in 1..Len(Items)}
\* a post_id that is null / empty
NoId == ""
\* where the page is: on a feed item, on the bare feed page
\* (https://www.instagram.com/reels/), on the suspension page, elsewhere
Urls == Ids \cup {"feed", "suspended", "other"}
\* which extraction path built a record object
Sources == {"net", "dom"}
\* a record object: the id and the path that built it identify the object
\* (the loop and the cache hold references to it)
Reels == [post_id : Ids, src : Sources]
\* null
NullReel == [post_id |-> NoId, src |-> "null"]

Strategies == <<"ArrowDown", "ArrowRight", "ButtonClick", "Swipe", "PageDown">>

\* a media item of a packet: its shortcode / code (NoId: it has none),
\* whether it says it is a video (product_type 'clips' or media_type 2)
\* and whether its __typename is 'XDTMediaDict'; only the deep search looks
\* at the __typename
TypedItems ==
  [code : {Items[1], Items[2], NoId}, video : BOOLEAN, typename : BOOLEAN]
PacketItems == {item \in TypedItems : ~item.typename}
ItemSeqs(lo, hi) == UNION {[1..n -> PacketItems] : n \in lo..hi}
\* the JSON value of a packet body.  top: what the value is at the top, a
\* bare array, an object with the key `items`, or an object with the key
\* `data`; key: the key under `data` that holds the items; depth: how many
\* levels below `data` the items are
SingleKeys == {"xdt_shortcode_media", "shortcode_media"}
ConnectionKey == "xdt_api__v1__clips__home__connection_v2"
\* where the handler does not look at an item's type the items say video,
\* and where it does not look at the items at all there is one, with an id
VideoSeqs(lo, hi) ==
  {s \in ItemSeqs(lo, hi) : \A k \in 1..Len(s) : s[k].video}
SinglePayloads ==
  [top : {"data"}, key : SingleKeys, items : VideoSeqs(1, 1), depth : {1}]
ConnectionPayloads ==
  [top : {"data"}, key : {ConnectionKey}, items : VideoSeqs(0, MaxItems),
   depth : {1}]
ArrayPayloads ==
  [top : {"array", "items"}, key : {"items"},
   items : {<<[code |-> Items[1], video |-> TRUE, typename |-> FALSE]>>},
   depth : {1}]
    \cup [top : {"data"}, key : {"items"}, items : ItemSeqs(1, MaxItems),
          depth : {1}]
NestedPayloads ==
  [top : {"data"}, key : {"other"}, items : [1..1 -> TypedItems],
   depth : 1..MaxDepth]
Payloads ==
  SinglePayloads \cup ConnectionPayloads \cup ArrayPayloads
    \cup NestedPayloads
NoPayload == [top |-> "none", key |-> "none", items |-> <<>>, depth |-> 1]
\* what the page hands to sendDataToNode.  query: the URL has
\* /graphql/query and the method is POST; the text is: 'for (;;);' if
\* prefix, white space if space, then payload as JSON, or something that
\* is not JSON if not valid
Packets ==
  [query : {TRUE}, prefix : BOOLEAN, space : BOOLEAN, valid : {TRUE},
   payload : Payloads]
    \cup [query : {TRUE}, prefix : BOOLEAN, space : {FALSE},
          valid : {FALSE}, payload : {NoPayload}]
    \cup [query : {FALSE}, prefix : {FALSE}, space : {FALSE},
          valid : {TRUE}, payload : SinglePayloads]
NullPacket ==
  [query |-> FALSE, prefix |-> FALSE, space |-> FALSE, valid |-> FALSE,
   payload |-> NoPayload]

VARIABLES
  \* the page
  url,                  \* page.url()
  feed,                 \* the items the page moves through, in order
  redirects,            \* how often the platform has moved the page away
  \* ReelCollector
  collectedReels,       \* the Map, in insertion order
  networkReels,         \* the auxiliary list
  \* CSVStorage
  posts,                \* the rows of posts.csv
  \* scrapeReelsFeed
  pc,
  reelsToCollect,
  reels,
  reelsCollected,
  navigationFailures,
  consecutiveNavigationFailures,
  currentReelId,
  reelData,
  screenshotPath,
  pollI,                \* i of the data-arrival poll
  outcome,              \* what the caller of scrapeReelsFeed gets
  \* navigateToNextReel
  navCaller,            \* which call of the loop: first, retry, recover
  navFrom,              \* currentReelId of the call
  navMaxRetries,
  navStrategy,          \* index into Strategies
  navTried,             \* the strategies attempted in this call, in order
  navResult,            \* "none" while running, then "true" / "false"
  navAccept,            \* how verifyNavigation accepted: "id", "video"
  navThrew,             \* the strategy just attempted threw
  \* history of the session
  blockDetected,        \* checkForSuspension has returned true in the loop
  tracking,             \* the session's history is kept
  navLog,               \* the advance calls so far: who called, the result
  shots,                \* screenshot_path of each record object
  dwelt,                \* ids saved, then offered to the like and watched
  pollWaited,           \* the data-arrival poll's last wait
  \* the ReelCollector driven on its own
  addCalls,             \* addReel calls per id since the last clear()
  firstAdded,           \* the argument of the first of them
  lastArg,              \* the last addReel call's argument
  lastRet,              \* and what it returned
  saveCalls,            \* savePost calls of the driver
  lastSaveArg,          \* the last of them's argument
  lastSaveRet,          \* and what it returned
  \* the interception bridge driven on its own
  sent,                 \* sendDataToNode calls so far
  packet,               \* the last of them's argument
  sendOutcome,          \* how the last of them ended
  search,               \* the deep search of the last of them
  \* ReelDataTransformer driven on its own
  graphqlData,          \* merge's first argument
  domData,              \* merge's second argument
  merged,               \* what merge returned
  \* the backoff of the loop driven on its own
  backoffs,             \* failed advances in a row
  delay,                \* the last backoff's delay, before jitter
  finalDelay,           \* and with jitter
  \* HashtagExtractor driven on its own
  tagItem,              \* the intercepted item
  tagResult,            \* extractFromGraphQL(tagItem).hashtags, once called
  \* the posts file written for several personas
  csvRows,              \* the rows of posts.csv: persona, feed type, id
  csvCalls,             \* the savePost calls made so far
  \* scrapeAllPersonas
  nPersonas,            \* personas.length
  runI,                 \* the loop's i
  runPc,                \* where scrapePersona or the loop stands
  runEnd,               \* how scrapePersona ended: returned, or the error
  runSuspended,         \* an AccountSuspendedError was raised for persona i
  runLog,               \* per persona: suspended or not, the wait after it
  \* the drain step run on its own
  drainArgs,            \* the cache, reels, posts, counter and target
  drainResult,          \* reels, posts and counter after the step
  \* verifyNavigation called on its own
  verifyArgs,           \* the bound, when the id changes, the video there
  verifyResult,         \* how the call ended and its waitedTime then
  \* the page's fetch calls through the capture shim
  fetches,              \* per call: where it stands and what has happened
  \* one CSVStorage and its cache of the file's post ids
  idCache,              \* _existingPostIdsCache
  cacheValid,           \* _cacheValid
  cacheCalls            \* the savePost and hasPost calls so far

pageVars == <<url, feed, redirects>>
collectorVars == <<collectedReels, networkReels>>
loopVars == <<pc, reelsToCollect, reels, reelsCollected, navigationFailures,
              consecutiveNavigationFailures, currentReelId, reelData,
              screenshotPath, pollI, outcome>>
navVars == <<navCaller, navFrom, navMaxRetries, navStrategy, navTried,
             navResult, navAccept, navThrew>>
histVars == <<blockDetected, tracking, navLog, shots, dwelt, pollWaited>>
addVars == <<addCalls, firstAdded, lastArg, lastRet>>
saveVars == <<saveCalls, lastSaveArg, lastSaveRet>>
parserVars == <<sent, packet, sendOutcome, search>>
mergeVars == <<graphqlData, domData, merged>>
backoffVars == <<backoffs, delay, finalDelay>>
tagVars == <<tagItem, tagResult>>
csvVars == <<csvRows, csvCalls>>
runVars == <<nPersonas, runI, runPc, runEnd, runSuspended, runLog>>
drainVars == <<drainArgs, drainResult>>
verifyVars == <<verifyArgs, verifyResult>>
cacheVars == <<idCache, cacheValid, cacheCalls>>
moreVars == <<csvVars, runVars, drainVars, verifyVars, fetches, cacheVars>>
pureVars == <<mergeVars, backoffVars, tagVars, moreVars>>
driverVars == <<addVars, saveVars, parserVars, pureVars>>
vars == <<pageVars, collectorVars, posts, loopVars, navVars, histVars,
          driverVars>>

(***************************************************************************)
(* Sequences.                                                              *)
(***************************************************************************)
Range(s) == {s[i] : i \in 1..Len(s)}
IdsOf(s) == {s[i].post_id : i \in 1..Len(s)}
Min(a, b) == IF a < b THEN a ELSE b
Max(a, b) == IF a > b THEN a ELSE b

\* how many records of s have the id
countOf(s, postId) == Cardinality({k \in 1..Len(s) : s[k].post_id = postId})

(***************************************************************************)
(* ReelCollector (src/src/extraction/reel-collector.js).  A Map keeps its  *)
(* entries in insertion order, so it is a sequence of records with         *)
(* distinct post_id.                                                       *)
(***************************************************************************)
hasReel(c, postId) == \E i \in 1..Len(c) : c[i].post_id = postId

getReel(c, postId) ==
  IF hasReel(c, postId)
  THEN c[CHOOSE i \in 1..Len(c) : c[i].post_id = postId]
  ELSE NullReel

getAllReels(c) == c

size(c) == Len(c)

\* Map.set on a key the Map holds replaces the value and keeps the place
MapSet(c, r) ==
  IF hasReel(c, r.post_id)
  THEN [i \in 1..Len(c) |-> IF c[i].post_id = r.post_id THEN r ELSE c[i]]
  ELSE Append(c, r)

\* a collector that writes without looking: last write wins
addReelOverwrite(c, n, r) ==
  IF r = NullReel \/ r.post_id = NoId
  THEN [collectedReels |-> c, networkReels |-> n, ret |-> "undefined"]
  ELSE [collectedReels |-> MapSet(c, r),
        networkReels |-> IF hasReel(c, r.post_id) THEN n ELSE Append(n, r),
        ret |-> "undefined"]

\* a collector that pushes to the list whatever the Map holds
addReelPushAlways(c, n, r) ==
  IF r = NullReel \/ r.post_id = NoId
  THEN [collectedReels |-> c, networkReels |-> n, ret |-> "undefined"]
  ELSE [collectedReels |-> IF hasReel(c, r.post_id) THEN c ELSE Append(c, r),
        networkReels |-> Append(n, r), ret |-> "undefined"]

\* a collector that inserts without asking the Map for the key
addReelNoCheck(c, n, r) ==
  IF r = NullReel \/ r.post_id = NoId
  THEN [collectedReels |-> c, networkReels |-> n, ret |-> "undefined"]
  ELSE [collectedReels |-> Append(c, r), networkReels |-> Append(n, r),
        ret |-> "undefined"]

\* addReel(reelData): the collector after the call, and the call's value
\* (the method has no return statement with a value)
addReel(c, n, r) ==
  IF r = NullReel \/ r.post_id = NoId
  THEN [collectedReels |-> c, networkReels |-> n, ret |-> "undefined"]
  ELSE IF ~hasReel(c, r.post_id)
       THEN [collectedReels |-> Append(c, r), networkReels |-> Append(n, r),
             ret |-> "undefined"]
       ELSE [collectedReels |-> c, networkReels |-> n, ret |-> "undefined"]

(***************************************************************************)
(* The interception bridge: the sendDataToNode handler                     *)
(* (src/unnamed/part_007), GraphQLHandler                                  *)
(* (src/src/network/graphql-handler.js) and GraphQLExtractor               *)
(* (src/src/extraction/graphql-extractor.js).                              *)
(***************************************************************************)
\* a handler that hands the text to JSON.parse as it came
stripPrefixNot(text) == text

\* lines 51-54 of the handler: a text that starts with 'for (;;);' loses
\* it and the white space after it
stripPrefix(text) ==
  IF text.prefix
  THEN [text EXCEPT !.prefix = FALSE, !.space = FALSE]
  ELSE text

\* JSON.parse: white space before the value is skipped; anything else
\* before it, or a text that is not JSON, throws
JSONparse(text) ==
  IF text.valid /\ ~text.prefix
  THEN [ok |-> TRUE, value |-> text.payload]
  ELSE [ok |-> FALSE, value |-> NoPayload]

\* extractReelDataFromItem: post_id is shortcode || code; no id, no record
extractReelDataFromItem(item) ==
  IF item.code # NoId
  THEN [post_id |-> item.code, src |-> "net"]
  ELSE NullReel

\* extractReelFromGraphQL: the first item of the structure it recognizes
extractReelFromGraphQL(parsedData) ==
  IF parsedData.top = "data" /\ parsedData.key \in SingleKeys
  THEN extractReelDataFromItem(parsedData.items[1])
  ELSE IF parsedData.top = "data" /\ parsedData.key = ConnectionKey
  THEN IF Len(parsedData.items) > 0
       THEN extractReelDataFromItem(parsedData.items[1])
       ELSE NullReel
  ELSE IF parsedData.top = "items" \/ parsedData.key = "items"
  THEN extractReelDataFromItem(parsedData.items[1])
  ELSE NullReel

\* lines 98-102: is this a media object
isMediaObject(obj) == (obj.typename \/ obj.code # NoId) /\ obj.video

\* findMediaObjects(obj, depth) on the way down to the items: the objects
\* above them are not media objects
RECURSIVE findMediaObjectsFrom(_, _)
findMediaObjectsFrom(parsedData, depth) ==
  IF depth > SearchDepth
  THEN <<>>
  ELSE IF depth = parsedData.depth
       THEN SelectSeq(parsedData.items, isMediaObject)
       ELSE findMediaObjectsFrom(parsedData, depth + 1)

\* findMediaObjects(parsedData.data)
findMediaObjects(parsedData) == findMediaObjectsFrom(parsedData, 0)

\* the loops of processGraphQLResponse: each item's record, if it has an
\* id, goes to addReel
RECURSIVE addItems(_, _, _)
addItems(c, n, items) ==
  IF items = <<>>
  THEN [collectedReels |-> c, networkReels |-> n]
  ELSE LET rd == extractReelDataFromItem(Head(items))
           r == IF rd # NullReel /\ rd.post_id # NoId
                THEN addReel(c, n, rd)
                ELSE [collectedReels |-> c, networkReels |-> n]
       IN  addItems(r.collectedReels, r.networkReels, Tail(items))

\* processGraphQLResponse(parsedData, url, method)
processGraphQLResponse(c, n, parsedData) ==
  IF parsedData.top # "data"
  THEN [collectedReels |-> c, networkReels |-> n]
  ELSE IF parsedData.key = ConnectionKey
  THEN addItems(c, n, parsedData.items)
  ELSE IF parsedData.key \in SingleKeys
  THEN LET rd == extractReelFromGraphQL(parsedData)
       IN  IF rd # NullReel /\ rd.post_id # NoId
           THEN LET r == addReel(c, n, rd)
                IN  [collectedReels |-> r.collectedReels,
                     networkReels |-> r.networkReels]
           ELSE [collectedReels |-> c, networkReels |-> n]
  ELSE addItems(c, n, findMediaObjects(parsedData))

NoSearch == [ran |-> FALSE, found |-> <<>>]

\* whether the handler's call gets to Structure 3 of
\* processGraphQLResponse, and the mediaObjects it finds there
searchOf(interceptedData) ==
  LET parsed == JSONparse(stripPrefix(interceptedData))
  IN  IF /\ interceptedData.query
         /\ parsed.ok
         /\ parsed.value.top = "data"
         /\ parsed.value.key # ConnectionKey
         /\ parsed.value.key \notin SingleKeys
      THEN [ran |-> TRUE, found |-> findMediaObjects(parsed.value)]
      ELSE NoSearch

\* a handler whose inner try has no catch and whose outer catch rethrows
handlerOutcomeUncaught(interceptedData) ==
  IF /\ interceptedData.query
     /\ ~JSONparse(stripPrefix(interceptedData)).ok
  THEN "rejected"
  ELSE "returned"

\* how the handler's promise settles: JSON.parse throws inside the inner
\* try, whose catch (lines 67-74) ends the call normally
handlerOutcome(interceptedData) ==
  IF /\ interceptedData.query
     /\ ~JSONparse(stripPrefix(interceptedData)).ok
  THEN "caught"
  ELSE "returned"

\* the sendDataToNode handler: the collector after it has run on a packet
sendDataToNode(c, n, interceptedData) ==
  IF ~interceptedData.query
  THEN [collectedReels |-> c, networkReels |-> n]
  ELSE LET parsed == JSONparse(stripPrefix(interceptedData))
       IN  IF ~parsed.ok \/ parsed.value.top # "data"
           THEN [collectedReels |-> c, networkReels |-> n]
           ELSE processGraphQLResponse(c, n, parsed.value)

(***************************************************************************)
(* CSVStorage.savePost (src/src/utils/interactive-browser.js).  Of a row   *)
(* the model keeps the id and which extraction path built the record.      *)
(***************************************************************************)
hasPost(p, postId) ==
  /\ postId # NoId
  /\ \E i \in 1..Len(p) : p[i].post_id = postId

Row(postData) == [post_id |-> postData.post_id, src |-> postData.src]

\* a savePost that does not look at the id
savePostUnguarded(p, postData, ioError) ==
  IF postData = NullReel
  THEN [posts |-> p, saved |-> FALSE]
  ELSE IF hasPost(p, postData.post_id)
       THEN [posts |-> p, saved |-> FALSE]
       ELSE IF ioError
            THEN [posts |-> p, saved |-> FALSE]
            ELSE [posts |-> Append(p, Row(postData)), saved |-> TRUE]

\* savePost(persona, 'reels', postData): the rows after the call and its
\* value; ioError: appendFileSync throws, which the method catches
savePost(p, postData, ioError) ==
  IF postData = NullReel \/ postData.post_id = NoId
  THEN [posts |-> p, saved |-> FALSE]
  ELSE IF hasPost(p, postData.post_id)
       THEN [posts |-> p, saved |-> FALSE]
       ELSE IF ioError
            THEN [posts |-> p, saved |-> FALSE]
            ELSE [posts |-> Append(p, Row(postData)), saved |-> TRUE]

(***************************************************************************)
(* ReelNavigator (src/src/browser/browser-lifecycle.js).                   *)
(***************************************************************************)
\* isOnReelPage(): the URL names a feed item
isOnReelPage(u) == u \in Ids

\* getCurrentReelId(): the item's code, or null
getCurrentReelId(u) == IF u \in Ids THEN u ELSE NoId

\* verifyNavigation's loop.  changeAt: the waited time at which the page's
\* item id is first seen to differ from currentReelId (0: it never does);
\* videoReady: the page holds a video element with a source.  The value
\* says how the navigation was accepted: "id", "video", or "false".
RECURSIVE verifyLoop(_, _, _, _)
verifyLoop(waitedTime, maxWaitTime, changeAt, videoReady) ==
  IF ~(waitedTime < maxWaitTime)
  THEN "false"
  ELSE LET w == waitedTime + checkInterval
       IN  IF changeAt # 0 /\ changeAt <= w
           THEN "id"
           ELSE IF videoReady /\ w > VideoFloor
                   /\ w * 10 > maxWaitTime * VideoShare
                THEN "video"
                ELSE verifyLoop(w, maxWaitTime, changeAt, videoReady)

\* the waitedTime with which verifyNavigation's loop returns
RECURSIVE verifyWaited(_, _, _, _)
verifyWaited(waitedTime, maxWaitTime, changeAt, videoReady) ==
  IF ~(waitedTime < maxWaitTime)
  THEN waitedTime
  ELSE LET w == waitedTime + checkInterval
       IN  IF changeAt # 0 /\ changeAt <= w
           THEN w
           ELSE IF videoReady /\ w > VideoFloor
                   /\ w * 10 > maxWaitTime * VideoShare
                THEN w
                ELSE verifyWaited(w, maxWaitTime, changeAt, videoReady)

verifyNavigation(maxWaitTime, changeAt, videoReady) ==
  verifyLoop(0, maxWaitTime, changeAt, videoReady)

\* the bound a strategy verifies with
strategyMaxWait(strategy) ==
  IF strategy = "PageDown" THEN PageDownMaxWait ELSE DefaultMaxWait

\* the attempts a strategy makes: the key and click strategies loop to
\* maxRetries, the swipe and PageDown act once
strategyAttempts(strategy, maxRetries) ==
  IF strategy \in {"Swipe", "PageDown"} THEN 1 ELSE maxRetries

\* one attempt of a strategy.  throws: a page call of the attempt throws
\* (caught by the strategy); present: the element the strategy needs (the
\* Next button, the video's box) is there
attemptOutcome(strategy, throws, present, changeAt, videoReady) ==
  IF throws
  THEN "false"
  ELSE IF strategy \in {"ButtonClick", "Swipe"} /\ ~present
       THEN "false"
       ELSE verifyNavigation(strategyMaxWait(strategy), changeAt, videoReady)

\* a navigateToNextReel that the first failing strategy ends
navigateStepThrown(s, attempt, maxRetries, out) ==
  [navStrategy |-> s, navAttempt |-> attempt,
   navResult |-> IF out = "false" THEN "false" ELSE "true"]

\* a loop over the strategies that does not stop at a success
navigateStepOn(s, attempt, maxRetries, out) ==
  IF s < Len(Strategies)
  THEN IF /\ out = "false"
          /\ attempt < strategyAttempts(Strategies[s], maxRetries)
       THEN [navStrategy |-> s, navAttempt |-> attempt + 1,
             navResult |-> "none"]
       ELSE [navStrategy |-> s + 1, navAttempt |-> 1, navResult |-> "none"]
  ELSE [navStrategy |-> s, navAttempt |-> attempt,
        navResult |-> IF out # "false" THEN "true" ELSE "false"]

\* navigateToNextReel's loop over the strategies, after one attempt of
\* strategy number s has ended with out: stop at the first success, else
\* the strategy's next attempt, else the next strategy, else give up
navigateStep(s, attempt, maxRetries, out) ==
  IF out # "false"
  THEN [navStrategy |-> s, navAttempt |-> attempt, navResult |-> "true"]
  ELSE IF attempt < strategyAttempts(Strategies[s], maxRetries)
       THEN [navStrategy |-> s, navAttempt |-> attempt + 1,
             navResult |-> "none"]
       ELSE IF s < Len(Strategies)
            THEN [navStrategy |-> s + 1, navAttempt |-> 1,
                  navResult |-> "none"]
            ELSE [navStrategy |-> s, navAttempt |-> attempt,
                  navResult |-> "false"]

(***************************************************************************)
(* The initial state: a scraper constructed and logged in, before          *)
(* scrapeReelsFeed(reelsToCollect).  posts.csv is empty or holds a row of  *)
(* an earlier session.                                                     *)
(***************************************************************************)
OldRow(id) == [post_id |-> id, src |-> "old"]

(***************************************************************************)
(* ReelDataTransformer.  An object is a record that keeps, for every key   *)
(* the transformer reads, how the object has it: "missing" (no such key,   *)
(* reading it gives undefined), "null" (the key with null) or "value".     *)
(***************************************************************************)
NoKey(v) == [k |-> "missing", v |-> v]
Null(v) == [k |-> "null", v |-> v]
Value(v) == [k |-> "value", v |-> v]

TagLists == {<<>>, <<"a">>, <<"a", "b">>, <<"b", "c">>}
LikeCounts == {0, 50, 120}

IdFields == {NoKey(NoId), Null(NoId), Value(Items[1])}
CaptionFields(text) == {NoKey(""), Null(""), Value(text)}
LikesFields == {NoKey(0), Null(0)} \cup {Value(n) : n \in LikeCounts}
TagFields == {NoKey(<<>>)} \cup {Value(t) : t \in TagLists}

\* the objects of one source; text is the caption the source reads
PartialsOf(text) ==
  [isObject : {TRUE}, post_id : IdFields, caption : CaptionFields(text),
   likes_count : LikesFields, hashtags : TagFields]

\* null / undefined in the place of an object
JSnull ==
  [isObject |-> FALSE, post_id |-> NoKey(NoId), caption |-> NoKey(""),
   likes_count |-> NoKey(0), hashtags |-> NoKey(<<>>)]

GraphqlPartials == PartialsOf("net caption") \cup {JSnull}
DomPartials == PartialsOf("dom caption") \cup {JSnull}

\* null in the place of a transformed record
NullRecord ==
  [isObject |-> FALSE, post_id |-> NoId, caption |-> "null",
   likes_count |-> 0, hashtags |-> <<>>, source |-> "null"]

\* merge has not been called
NotMerged == [NullRecord EXCEPT !.source = "not called"]

\* x || null of a string key
orNull(f, null) == IF f.k = "value" /\ f.v # "" THEN f.v ELSE null

\* parseInt(x) || 0
parseIntOr0(f) == IF f.k = "value" THEN f.v ELSE 0

\* o?.hashtags || []
hashtagsOrEmpty(o) == IF o.hashtags.k = "value" THEN o.hashtags.v ELSE <<>>

\* [...new Set(s)]: the first occurrence of every element, in order
RECURSIVE uniq(_)
uniq(s) ==
  IF s = <<>>
  THEN <<>>
  ELSE LET front == uniq(SubSeq(s, 1, Len(s) - 1))
           last == s[Len(s)]
       IN  IF \E i \in 1..Len(front) : front[i] = last
           THEN front
           ELSE Append(front, last)

\* key of {...domData, ...graphqlData}: an own key of the second object,
\* whatever its value, replaces that of the first; null spreads to nothing
spread(d, g, key) == IF g[key].k # "missing" THEN g[key] ELSE d[key]

\* transform(reelData, source)
transform(rd, source) ==
  IF ~rd.isObject
  THEN NullRecord
  ELSE [isObject |-> TRUE,
        post_id |-> orNull(rd.post_id, NoId),
        caption |-> orNull(rd.caption, "null"),
        hashtags |-> hashtagsOrEmpty(rd),
        likes_count |-> parseIntOr0(rd.likes_count),
        source |-> source]

\* merge(graphqlData, domData)
merge(g, d) ==
  LET m == [isObject |-> TRUE,
            post_id |-> spread(d, g, "post_id"),
            caption |-> spread(d, g, "caption"),
            likes_count |-> spread(d, g, "likes_count"),
            hashtags |->
              Value(uniq(hashtagsOrEmpty(g) \o hashtagsOrEmpty(d)))]
  IN  transform(m, "merged")

\* validate(reelData); the counts of a transformed record are numbers
validate(r) == r.isObject /\ r.post_id # NoId

(***************************************************************************)
(* HashtagExtractor.extractFromGraphQL (src/src/utils/hashtag-extractor.js)*)
(* Of an intercepted item the model keeps its three places for tags: the   *)
(* edges of edge_media_to_hashtag, the array hashtags, the array           *)
(* caption.hashtags; a tag is its name as the platform wrote it.           *)
(***************************************************************************)
RawTags == {"", "fun", "Fun", "#Fun", "art", "#art"}

\* String.prototype.toLowerCase on the names of the model
toLowerCase(s) ==
  CASE s = "Fun" -> "fun"
    [] s = "#Fun" -> "#fun"
    [] OTHER -> s

\* replace(/^#/, '')
stripHash(s) ==
  CASE s = "#fun" -> "fun"
    [] s = "#Fun" -> "Fun"
    [] s = "#art" -> "art"
    [] OTHER -> s

\* a normalization that keeps the letters' case
normalizeTagCased(hashtagName) == stripHash(hashtagName)

\* hashtagName.toLowerCase().replace(/^#/, '')
normalizeTag(hashtagName) == stripHash(toLowerCase(hashtagName))

TagSeqs ==
  UNION {[1..n -> RawTags] : n \in 0..MaxTags}

\* one place: has: the key is there and holds an array
TagPlaces ==
  [has : {TRUE}, tags : TagSeqs] \cup {[has |-> FALSE, tags |-> <<>>]}

TaggedItems == [edges : TagPlaces, hashtags : TagPlaces, caption : TagPlaces]

NoTagItem ==
  [edges |-> [has |-> FALSE, tags |-> <<>>],
   hashtags |-> [has |-> FALSE, tags |-> <<>>],
   caption |-> [has |-> FALSE, tags |-> <<>>]]

NotExtracted == <<"not called">>

\* one method's forEach: every name that is not empty, normalized
methodTags(place) ==
  LET named == SelectSeq(place.tags, LAMBDA t : t # "")
  IN  IF place.has
      THEN [i \in 1..Len(named) |-> normalizeTag(named[i])]
      ELSE <<>>

\* extractFromGraphQL(items).hashtags: Array.from of the Set the three
\* methods add to, in this order
extractFromGraphQL(items) ==
  uniq(methodTags(items.edges) \o methodTags(items.hashtags)
         \o methodTags(items.caption))

\* a fetch call the page has not made yet: the original fetch not invoked,
\* nothing received, no body read, nothing to relay
NoFetch ==
  [pc |-> "idle", invoked |-> 0, outcomes |-> <<>>,
   received |-> <<0, "none">>, bodyRead |-> "none", relay |-> "none"]

\* not yet called
NoVerifyArgs == [maxWaitTime |-> 0, changeAt |-> 0, video |-> "none"]
NotVerified == [value |-> "not called", waitedTime |-> 0]

\* not yet run: no target, no counter
NoDrainArgs ==
  [cache |-> <<>>, reels |-> <<>>, posts |-> <<>>, collected |-> 0,
   target |-> 0, failing |-> {}]
NotDrained ==
  [posts |-> <<>>, reels |-> <<>>, reelsCollected |-> -1, touched |-> {}]

\* the drivers of the pure functions have been given nothing
NoPartials ==
  /\ graphqlData = JSnull
  /\ domData = JSnull
  /\ tagItem = NoTagItem

NavIdle ==
  /\ navCaller = "none"
  /\ navFrom = NoId
  /\ navMaxRetries = 0
  /\ navStrategy = 1
  /\ navTried = <<>>
  /\ navResult = "none"
  /\ navAccept = "none"
  /\ navThrew = FALSE

\* what every specification starts from
Constructed ==
  /\ url = "other"
  /\ redirects = 0
  /\ collectedReels = <<>>
  /\ networkReels = <<>>
  /\ pc = "setup"
  /\ reels = <<>>
  /\ reelsCollected = 0
  /\ navigationFailures = 0
  /\ consecutiveNavigationFailures = 0
  /\ currentReelId = NoId
  /\ reelData = NullReel
  /\ screenshotPath = "null"
  /\ pollI = 0
  /\ outcome = "running"
  /\ NavIdle
  /\ blockDetected = FALSE
  /\ navLog = <<>>
  /\ shots = [r \in Reels |-> "unset"]
  /\ dwelt = {}
  /\ pollWaited = 0
  /\ addCalls = [i \in Ids |-> 0]
  /\ firstAdded = [i \in Ids |-> NullReel]
  /\ lastArg = NullReel
  /\ lastRet = "none"
  /\ saveCalls = 0
  /\ lastSaveArg = NullReel
  /\ lastSaveRet = "none"
  /\ sent = 0
  /\ packet = NullPacket
  /\ sendOutcome = "none"
  /\ search = NoSearch
  /\ merged = NotMerged
  /\ backoffs = 0
  /\ delay = 0
  /\ finalDelay = 0
  /\ tagResult = NotExtracted
  /\ csvRows = <<>>
  /\ csvCalls = <<>>
  /\ nPersonas = 0
  /\ runI = 0
  /\ runPc = "start"
  /\ runEnd = "none"
  /\ runSuspended = FALSE
  /\ runLog = <<>>
  /\ drainArgs = NoDrainArgs
  /\ drainResult = NotDrained
  /\ verifyArgs = NoVerifyArgs
  /\ verifyResult = NotVerified
  /\ fetches = [i \in 1..MaxFetches |-> NoFetch]
  /\ idCache = {}
  /\ cacheValid = FALSE
  /\ cacheCalls = <<>>

Init ==
  /\ Constructed
  /\ NoPartials
  /\ feed = SubSeq(Items, 1, MaxFeed)
  /\ posts \in {<<>>, <<OldRow(Items[1])>>}
  /\ reelsToCollect \in 1..MaxTarget
  /\ tracking = FALSE

(***************************************************************************)
(* The environment: the page and the interception bridge.                  *)
(***************************************************************************)
\* the awaits of scrapeReelsFeed at which a packet is delivered.  The loop
\* reads the cache after the load delay at the top of an iteration, after
\* each wait of the poll and after the DOM extraction; a packet delivered
\* during any other await acts as one delivered during the next of these
DeliveryPcs == {"setup", "guard", "poll", "dom"}

\* sendDataToNode -> processGraphQLResponse: a data-query packet with the
\* item id; the handler extracts the record and hands it to addReel
Intercept(id) ==
  /\ pc \in DeliveryPcs
  /\ id \in Range(feed)
  /\ LET r == addReel(collectedReels, networkReels,
                      [post_id |-> id, src |-> "net"])
     IN  /\ collectedReels' = r.collectedReels
         /\ networkReels' = r.networkReels
  /\ UNCHANGED <<pageVars, posts, loopVars, navVars, histVars, driverVars>>

\* the platform moves the page off the feed during the load delay: to the
\* suspension page (an account block) or to some other page
Redirect(to) ==
  /\ pc = "guard"
  /\ redirects < MaxRedirects
  /\ url \in Ids
  /\ url' = to
  /\ redirects' = redirects + 1
  /\ UNCHANGED <<feed, collectorVars, posts, loopVars, navVars, histVars,
                 driverVars>>

(***************************************************************************)
(* scrapeReelsFeed (src/src/core/scraper.js).                              *)
(***************************************************************************)
\* lines 137-184: reach the first reel, reset the counters, clear the cache
Setup(how) ==
  /\ pc = "setup"
  /\ IF how = "ok"
     THEN /\ url' = feed[1]
          /\ collectedReels' = <<>>
          /\ networkReels' = <<>>
          /\ pc' = "guard"
          /\ outcome' = outcome
     ELSE /\ url' = "feed"
          /\ UNCHANGED collectorVars
          /\ pc' = "done"
          \* clickFirstReel found nothing: return []; a throw goes to the
          \* outer catch, which rethrows
          /\ outcome' = IF how = "noreels" THEN "returned" ELSE "threw_error"
  /\ UNCHANGED <<feed, redirects, posts, reelsToCollect, reels,
                 reelsCollected, navigationFailures,
                 consecutiveNavigationFailures, currentReelId, reelData,
                 screenshotPath, pollI, navVars, histVars, driverVars>>

\* lines 187-189: the while condition
LoopCondition ==
  /\ reelsCollected < reelsToCollect
  /\ navigationFailures < maxFailures
  /\ consecutiveNavigationFailures < maxConsecutiveNavigationFailures

\* lines 187-246 and 429-446: the while condition, the load delay, the
\* on-reel check (with the app-prompt check, which changes nothing here),
\* the item id; the poll only if the cache lacks the id.  When the
\* condition fails: return reels
LoopTop ==
  /\ pc = "guard"
  /\ IF ~LoopCondition
     THEN /\ pc' = "done"
          /\ outcome' = "returned"
          /\ UNCHANGED currentReelId
     ELSE IF isOnReelPage(url)
          THEN /\ currentReelId' = getCurrentReelId(url)
               /\ pc' = IF ~hasReel(collectedReels, getCurrentReelId(url))
                        THEN "poll" ELSE "screenshot"
               /\ outcome' = outcome
          ELSE /\ pc' = "off_prompt"
               /\ UNCHANGED <<currentReelId, outcome>>
  /\ UNCHANGED <<pageVars, collectorVars, posts, reelsToCollect, reels,
                 reelsCollected, navigationFailures,
                 consecutiveNavigationFailures, reelData, screenshotPath,
                 pollI, navVars, histVars, driverVars>>

\* a poll whose waits start long and get shorter
waitTimeShrinking(i) == Max(PollCap - (i * PollStep), PollBase)

\* line 239: the wait before check i, without its random part
waitTime(i) == Min(PollBase + (i * PollStep), PollCap)

\* randomDelay(waitTime, waitTime + 200) waits a whole number of
\* milliseconds between the two, drawn anew each time; in steps of 100
PollJitters == {j \in 0..PollJitter : j % PollStep = 0}

\* lines 238-245: one wait of the poll, then the cache check
PollWait(jitter) ==
  /\ pc = "poll"
  /\ IF hasReel(collectedReels, currentReelId)
     THEN /\ pc' = "screenshot"
          /\ pollI' = 0
     ELSE /\ pollI' = IF pollI + 1 < PollMax THEN pollI + 1 ELSE 0
          /\ pc' = IF pollI + 1 < PollMax THEN "poll" ELSE "screenshot"
  /\ pollWaited' = IF tracking THEN waitTime(pollI) + jitter ELSE 0
  /\ UNCHANGED <<pageVars, collectorVars, posts, reelsToCollect, reels,
                 reelsCollected, navigationFailures,
                 consecutiveNavigationFailures, currentReelId, reelData,
                 screenshotPath, outcome, navVars, blockDetected, tracking,
                 navLog, shots, dwelt, driverVars>>

\* takeReelScreenshot gives a path only on a reel or feed URL
screenshotTaken(id, u, ok) ==
  IF id # NoId /\ ok /\ u \in Ids \cup {"feed"} THEN "png" ELSE "null"

\* lines 249-270: the screenshot, then the cache lookup of the record
TakeScreenshot(ok) ==
  /\ pc = "screenshot"
  /\ screenshotPath' = screenshotTaken(currentReelId, url, ok)
  /\ IF currentReelId # NoId /\ hasReel(collectedReels, currentReelId)
     THEN /\ reelData' = getReel(collectedReels, currentReelId)
          /\ pc' = "attach"
     ELSE /\ reelData' = NullReel
          /\ pc' = "dom"
  /\ UNCHANGED <<pageVars, collectorVars, posts, reelsToCollect, reels,
                 reelsCollected, navigationFailures,
                 consecutiveNavigationFailures, currentReelId, pollI,
                 outcome, navVars, histVars, driverVars>>

\* DOMExtractor.extractReelData: the id comes from the location the page
\* has when the script runs; null when it has none or the page call throws
extractReelData(u, ok) ==
  IF ok /\ u \in Ids THEN [post_id |-> u, src |-> "dom"] ELSE NullReel

\* lines 271-281: the DOM fallback and its insertion; the call's value is
\* not looked at
DomExtract(ok) ==
  /\ pc = "dom"
  /\ LET d == extractReelData(url, ok)
         r == addReel(collectedReels, networkReels, d)
     IN  /\ reelData' = d
         /\ collectedReels' = r.collectedReels
         /\ networkReels' = r.networkReels
  /\ pc' = "attach"
  /\ UNCHANGED <<pageVars, posts, reelsToCollect, reels, reelsCollected,
                 navigationFailures, consecutiveNavigationFailures,
                 currentReelId, screenshotPath, pollI, outcome, navVars,
                 histVars, driverVars>>

\* a drain step that runs however many cached records are unsaved
drainListUnbounded(c, rs, collected, target) ==
  IF size(c) > 0 /\ collected < target
  THEN SelectSeq(getAllReels(c), LAMBDA x : x.post_id \notin IdsOf(rs))
  ELSE <<>>

\* a drain step bounded by the rest of the target alone
drainListToTarget(c, rs, collected, target) ==
  IF size(c) > 0 /\ collected < target
  THEN LET unsaved == SelectSeq(getAllReels(c),
                                LAMBDA x : x.post_id \notin IdsOf(rs))
       IN  IF Len(unsaved) > 0 /\ Len(unsaved) <= target - collected
           THEN unsaved ELSE <<>>
  ELSE <<>>

\* a drain step that takes the cached records whether in reels or not
drainListAll(c, rs, collected, target) ==
  IF size(c) > 0 /\ collected < target
  THEN LET unsaved == getAllReels(c)
       IN  IF Len(unsaved) > 0
              /\ Len(unsaved) <= Min(DrainMax, target - collected)
           THEN unsaved ELSE <<>>
  ELSE <<>>

\* lines 291-300: the cached records not in reels, if the drain step is to
\* run, else none
drainList(c, rs, collected, target) ==
  IF size(c) > 0 /\ collected < target
  THEN LET unsaved == SelectSeq(getAllReels(c),
                                LAMBDA x : x.post_id \notin IdsOf(rs))
       IN  IF Len(unsaved) > 0
              /\ Len(unsaved) <= Min(DrainMax, target - collected)
           THEN unsaved ELSE <<>>
  ELSE <<>>

\* lines 301-320: the drain step's loop over its list; failing: the ids
\* whose append throws; touched: the records whose screenshot_path the
\* loop looks at (and sets to '' when it is not set)
RECURSIVE drainRun(_, _, _, _, _, _)
drainRun(unsaved, p, rs, collected, target, failing) ==
  IF unsaved = <<>>
  THEN [posts |-> p, reels |-> rs, reelsCollected |-> collected,
        touched |-> {}]
  ELSE LET unsavedReel == Head(unsaved)
           r == savePost(p, unsavedReel, unsavedReel.post_id \in failing)
           rest == IF collected < target /\ r.saved
                   THEN drainRun(Tail(unsaved), r.posts,
                                 Append(rs, unsavedReel), collected + 1,
                                 target, failing)
                   ELSE drainRun(Tail(unsaved), p, rs, collected, target,
                                 failing)
       IN  IF collected < target
           THEN [rest EXCEPT !.touched = @ \cup {unsavedReel}]
           ELSE rest

\* a path written only when there is one
attachScreenshotKeep(sh, r, path) ==
  IF r # NullReel /\ path # "null"
  THEN [sh EXCEPT ![r] = path]
  ELSE sh

\* lines 283-288: the screenshot path, or '', is written into the record
\* object
attachScreenshot(sh, r, path) ==
  IF r # NullReel
  THEN [sh EXCEPT ![r] = IF path # "null" THEN path ELSE ""]
  ELSE sh

\* lines 305-307: a record of the drain step without a path gets ''
drainScreenshots(sh, touched) ==
  [r \in Reels |-> IF r \in touched /\ sh[r] = "unset" THEN "" ELSE sh[r]]

\* lines 283-322: the screenshot path is written into the record object,
\* then the drain step
DrainUnsaved(failing) ==
  /\ pc = "attach"
  /\ LET unsavedReels == drainList(collectedReels, reels, reelsCollected,
                                   reelsToCollect)
         d == drainRun(unsavedReels, posts, reels, reelsCollected,
                       reelsToCollect, failing)
     IN  /\ failing \subseteq IdsOf(unsavedReels)
         /\ posts' = d.posts
         /\ reels' = d.reels
         /\ reelsCollected' = d.reelsCollected
         /\ shots' = IF tracking
                     THEN drainScreenshots(
                            attachScreenshot(shots, reelData,
                                             screenshotPath),
                            d.touched)
                     ELSE shots
  /\ screenshotPath' = "null"
  /\ pc' = "persist"
  /\ UNCHANGED <<pageVars, collectorVars, reelsToCollect,
                 navigationFailures, consecutiveNavigationFailures,
                 currentReelId, reelData, pollI, outcome, navVars,
                 blockDetected, tracking, navLog, dwelt, pollWaited,
                 driverVars>>

\* the counters after the main path's save: lines 346-365
countersAfterSave(saved, collected, failures, consecutive) ==
  IF saved
  THEN [reelsCollected |-> collected + 1, navigationFailures |-> 0,
        consecutiveNavigationFailures |-> 0]
  ELSE [reelsCollected |-> collected, navigationFailures |-> 0,
        consecutiveNavigationFailures |-> consecutive]

\* lines 346-360: after a save of the main path likeHandler.shouldLikePost()
\* is asked and the watch duration is waited
watched(dw, saved, r) == IF saved THEN dw \cup {r.post_id} ELSE dw

\* lines 324-372: the current record is pushed, then saved; after a save
\* the like and the watch time
PersistCurrent(ioError) ==
  /\ pc = "persist"
  /\ dwelt' = IF /\ tracking
                 /\ reelData # NullReel
                 /\ reelData.post_id # NoId
                 /\ reelData.post_id \notin IdsOf(reels)
              THEN watched(dwelt, savePost(posts, reelData, ioError).saved,
                           reelData)
              ELSE dwelt
  /\ IF reelData # NullReel /\ reelData.post_id # NoId
     THEN IF reelData.post_id \notin IdsOf(reels)
          THEN LET r == savePost(posts, reelData, ioError)
                   k == countersAfterSave(r.saved, reelsCollected,
                                          navigationFailures,
                                          consecutiveNavigationFailures)
               IN  /\ reels' = Append(reels, reelData)
                   /\ posts' = r.posts
                   /\ reelsCollected' = k.reelsCollected
                   /\ navigationFailures' = k.navigationFailures
                   /\ consecutiveNavigationFailures' =
                        k.consecutiveNavigationFailures
          ELSE /\ ~ioError
               /\ UNCHANGED <<reels, posts, reelsCollected,
                              navigationFailures,
                              consecutiveNavigationFailures>>
     ELSE /\ ~ioError
          /\ navigationFailures' = navigationFailures + 1
          /\ UNCHANGED <<reels, posts, reelsCollected,
                         consecutiveNavigationFailures>>
  /\ pc' = "advance"
  \* the iteration's constants are not read again
  /\ currentReelId' = NoId
  /\ reelData' = NullReel
  /\ UNCHANGED <<pageVars, collectorVars, reelsToCollect, screenshotPath,
                 pollI, outcome, navVars, blockDetected, tracking, navLog,
                 shots, pollWaited, driverVars>>

\* navigateToNextReel(maxRetries), lines 236-241: the call reads the item
\* id and gives up at once when there is none
StartNav(caller, maxRetries) ==
  /\ navCaller' = caller
  /\ navFrom' = getCurrentReelId(url)
  /\ navMaxRetries' = maxRetries
  /\ navStrategy' = 1
  /\ navTried' = <<>>
  /\ navAccept' = "none"
  /\ navThrew' = FALSE
  /\ navResult' = IF getCurrentReelId(url) = NoId THEN "false" ELSE "none"
  /\ pc' = IF getCurrentReelId(url) = NoId THEN "nav_ret" ELSE "nav"

\* lines 375-377: advance unless the target is reached
Advance ==
  /\ pc = "advance"
  /\ IF reelsCollected < reelsToCollect
     THEN StartNav("first", FirstRetries)
     ELSE /\ pc' = "guard"
          /\ UNCHANGED navVars
  /\ UNCHANGED <<pageVars, collectorVars, posts, reelsToCollect, reels,
                 reelsCollected, navigationFailures,
                 consecutiveNavigationFailures, currentReelId, reelData,
                 screenshotPath, pollI, outcome, histVars, driverVars>>

\* the waited times at which the page may show another item: never, at the
\* first check, after PageDown's bound but within the default bound
ChangeTimes == {0, checkInterval, PageDownMaxWait + checkInterval}

\* the item the page moves to from item id: the next of the feed, none
\* after the last
nextInFeed(f, id) ==
  IF \E k \in 1..(Len(f) - 1) : f[k] = id
  THEN f[(CHOOSE k \in 1..(Len(f) - 1) : f[k] = id) + 1]
  ELSE NoId

\* the loop of one strategy from attempt on, every attempt of it ending
\* with out
RECURSIVE strategyRun(_, _, _, _)
strategyRun(s, attempt, maxRetries, out) ==
  LET step == navigateStep(s, attempt, maxRetries, out)
  IN  IF step.navResult = "none" /\ step.navStrategy = s
      THEN strategyRun(s, step.navAttempt, maxRetries, out)
      ELSE step

\* the strategy in turn runs (lines 254-263 and the strategy's own loop)
NavStrategy(throws, present, changeAt, videoReady) ==
  /\ pc = "nav"
  \* inputs that are not looked at are fixed
  /\ throws => (present /\ changeAt = 0 /\ ~videoReady)
  /\ Strategies[navStrategy] \notin {"ButtonClick", "Swipe"} => present
  /\ ~present => (changeAt = 0 /\ ~videoReady)
  /\ nextInFeed(feed, url) = NoId => changeAt = 0
  /\ LET strategy == Strategies[navStrategy]
         out == attemptOutcome(strategy, throws, present, changeAt,
                               videoReady)
         step == strategyRun(navStrategy, 1, navMaxRetries, out)
     IN  /\ url' = IF ~throws /\ present /\ changeAt # 0
                   THEN nextInFeed(feed, url) ELSE url
         /\ navTried' = Append(navTried, strategy)
         /\ navStrategy' = step.navStrategy
         /\ navResult' = step.navResult
         /\ navAccept' = IF out # "false" THEN out ELSE navAccept
         /\ navThrew' = throws
         /\ pc' = IF step.navResult = "none" THEN "nav" ELSE "nav_ret"
  /\ UNCHANGED <<feed, redirects, collectorVars, posts, reelsToCollect,
                 reels, reelsCollected, navigationFailures,
                 consecutiveNavigationFailures, currentReelId, reelData,
                 screenshotPath, pollI, outcome, navCaller, navFrom,
                 navMaxRetries, histVars, driverVars>>

\* a loop that counts a failed advance in navigationFailures only
countersAfterAdvanceUncounted(navigated, failures, consecutive) ==
  IF navigated
  THEN [navigationFailures |-> failures, consecutiveNavigationFailures |-> 0]
  ELSE [navigationFailures |-> failures + 1,
        consecutiveNavigationFailures |-> consecutive]

\* the counters after the first advance call of an iteration: lines 379-406
countersAfterAdvance(navigated, failures, consecutive) ==
  IF navigated
  THEN [navigationFailures |-> failures, consecutiveNavigationFailures |-> 0]
  ELSE [navigationFailures |-> failures + 1,
        consecutiveNavigationFailures |-> consecutive + 1]

\* a retry whose success leaves the failures in a row as they are
countersAfterRetryKept(retryNavigated, failures, consecutive) ==
  IF retryNavigated
  THEN [navigationFailures |-> Max(0, failures - 1),
        consecutiveNavigationFailures |-> consecutive]
  ELSE [navigationFailures |-> failures,
        consecutiveNavigationFailures |-> consecutive]

\* the counters after the retry made after the backoff: lines 395-401
countersAfterRetry(retryNavigated, failures, consecutive) ==
  IF retryNavigated
  THEN [navigationFailures |-> Max(0, failures - 1),
        consecutiveNavigationFailures |-> 0]
  ELSE [navigationFailures |-> failures,
        consecutiveNavigationFailures |-> consecutive]

\* whether the failed advance is retried: line 384
retryAllowed(consecutive) == consecutive < maxConsecutiveNavigationFailures

\* navigateToNextReel has returned to the loop
NavReturn ==
  /\ pc = "nav_ret"
  /\ LET ok == navResult = "true"
         k == IF navCaller = "first"
              THEN countersAfterAdvance(ok, navigationFailures,
                                        consecutiveNavigationFailures)
              ELSE IF navCaller = "retry"
              THEN countersAfterRetry(ok, navigationFailures,
                                      consecutiveNavigationFailures)
              \* lines 416-420: the catch block ignores the result
              ELSE [navigationFailures |-> navigationFailures,
                    consecutiveNavigationFailures |->
                      consecutiveNavigationFailures]
     IN  /\ navigationFailures' = k.navigationFailures
         /\ consecutiveNavigationFailures' = k.consecutiveNavigationFailures
         /\ navLog' = IF tracking /\ Len(navLog) < MaxLog
                      THEN Append(navLog, [caller |-> navCaller, ok |-> ok])
                      ELSE navLog
         /\ pc' = IF navCaller = "first" /\ ~ok
                     /\ retryAllowed(k.consecutiveNavigationFailures)
                  THEN "backoff" ELSE "guard"
  /\ navCaller' = "none"
  /\ navFrom' = NoId
  /\ navMaxRetries' = 0
  /\ navStrategy' = 1
  /\ navTried' = <<>>
  /\ navResult' = "none"
  /\ navAccept' = "none"
  /\ navThrew' = FALSE
  /\ UNCHANGED <<pageVars, collectorVars, posts, reelsToCollect, reels,
                 reelsCollected, currentReelId, reelData, screenshotPath,
                 pollI, outcome, blockDetected, tracking, shots, dwelt,
                 pollWaited, driverVars>>

\* lines 385-395: the backoff delay is over, the advance is retried
Backoff ==
  /\ pc = "backoff"
  /\ StartNav("retry", RetryRetries)
  /\ UNCHANGED <<pageVars, collectorVars, posts, reelsToCollect, reels,
                 reelsCollected, navigationFailures,
                 consecutiveNavigationFailures, currentReelId, reelData,
                 screenshotPath, pollI, outcome, histVars, driverVars>>

\* LoginFlow.checkForSuspension: the suspension page
checkForSuspension(u) == u = "suspended"

\* lines 200-210 and 408-426: off the feed.  A block throws
\* AccountSuspendedError inside the iteration's try; the iteration's catch
\* counts a failure and tries to move on
CheckSuspension ==
  /\ pc = "off_prompt"
  /\ IF checkForSuspension(url)
     THEN /\ blockDetected' = TRUE
          /\ navigationFailures' = navigationFailures + 1
          /\ consecutiveNavigationFailures' =
               consecutiveNavigationFailures + 1
          /\ IF consecutiveNavigationFailures + 1
                  < maxConsecutiveNavigationFailures
             THEN StartNav("recover", RecoverRetries)
             ELSE /\ pc' = "guard"
                  /\ UNCHANGED navVars
     ELSE /\ pc' = "recovery"
          /\ UNCHANGED <<navigationFailures, consecutiveNavigationFailures,
                         navVars, blockDetected>>
  /\ UNCHANGED <<pageVars, collectorVars, posts, reelsToCollect, reels,
                 reelsCollected, currentReelId, reelData, screenshotPath,
                 pollI, outcome, tracking, navLog, shots, dwelt,
                 pollWaited, driverVars>>

\* lines 211-220: back to the feed page; a throw ends the loop, and the
\* function returns reels
RecoverToFeed(ok, land) ==
  /\ pc = "recovery"
  /\ IF ok
     THEN /\ url' = land
          /\ consecutiveNavigationFailures' =
               consecutiveNavigationFailures + 1
          /\ navigationFailures' = navigationFailures
          /\ pc' = "guard"
          /\ outcome' = outcome
     ELSE /\ land = "feed"
          /\ url' = url
          /\ navigationFailures' = navigationFailures + 1
          /\ consecutiveNavigationFailures' = consecutiveNavigationFailures
          /\ pc' = "done"
          /\ outcome' = "returned"
  /\ UNCHANGED <<feed, redirects, collectorVars, posts, reelsToCollect,
                 reels, reelsCollected, currentReelId, reelData,
                 screenshotPath, pollI, navVars, histVars, driverVars>>

Next ==
  \/ \E id \in Ids : Intercept(id)
  \/ \E to \in {"suspended", "other"} : Redirect(to)
  \/ \E how \in {"ok", "noreels", "error"} : Setup(how)
  \/ LoopTop
  \/ \E jitter \in PollJitters : PollWait(jitter)
  \/ \E ok \in BOOLEAN : TakeScreenshot(ok)
  \/ \E ok \in BOOLEAN : DomExtract(ok)
  \/ \E failing \in SUBSET Ids : DrainUnsaved(failing)
  \/ \E ioError \in BOOLEAN : PersistCurrent(ioError)
  \/ Advance
  \/ \E throws \in BOOLEAN, present \in BOOLEAN, changeAt \in ChangeTimes,
        videoReady \in BOOLEAN :
       NavStrategy(throws, present, changeAt, videoReady)
  \/ NavReturn
  \/ Backoff
  \/ CheckSuspension
  \/ \E ok \in BOOLEAN, land \in {"feed", Items[1]} : RecoverToFeed(ok, land)

Spec == Init /\ [][Next]_vars

\* A session in which no call throws and the page stays on the feed: the
\* steps of scrapeReelsFeed and of the calls it awaits; whether a save
\* appends or finds a duplicate, what the extraction and the strategies
\* return is chosen inside them
LoopNext ==
  \/ Setup("ok")
  \/ LoopTop
  \/ \E jitter \in PollJitters : PollWait(jitter)
  \/ \E ok \in BOOLEAN : TakeScreenshot(ok)
  \/ \E ok \in BOOLEAN : DomExtract(ok)
  \/ DrainUnsaved({})
  \/ PersistCurrent(FALSE)
  \/ Advance
  \/ \E present \in BOOLEAN, changeAt \in ChangeTimes,
        videoReady \in BOOLEAN :
       NavStrategy(FALSE, present, changeAt, videoReady)
  \/ NavReturn
  \/ Backoff

NextLive ==
  \/ \E id \in Ids : Intercept(id)
  \/ LoopNext

\* every await returns: the session always takes its next step; packets
\* arrive when they like
SpecLive == Init /\ [][NextLive]_vars /\ WF_vars(LoopNext)

(***************************************************************************)
(* The ReelCollector and the storage on their own: a driver calls addReel, *)
(* clear and savePost in any order and keeps what it passed and what it    *)
(* got back.                                                               *)
(***************************************************************************)
InitCollector ==
  /\ Constructed
  /\ NoPartials
  /\ feed = Items
  /\ posts = <<>>
  /\ reelsToCollect = 1
  /\ tracking = FALSE

\* what a caller may pass: a record, null, a record without an id
AddArgs == Reels \cup {NullReel, [post_id |-> NoId, src |-> "net"]}

CallsMade == addCalls[Items[1]] + addCalls[Items[2]] + addCalls[Items[3]]

DriverAdd(r) ==
  /\ CallsMade < MaxAdds
  /\ LET res == addReel(collectedReels, networkReels, r)
     IN  /\ collectedReels' = res.collectedReels
         /\ networkReels' = res.networkReels
         /\ lastRet' = res.ret
  /\ lastArg' = r
  /\ addCalls' = IF r.post_id \in Ids
                 THEN [addCalls EXCEPT ![r.post_id] = @ + 1]
                 ELSE addCalls
  /\ firstAdded' = IF r.post_id \in Ids /\ addCalls[r.post_id] = 0
                   THEN [firstAdded EXCEPT ![r.post_id] = r]
                   ELSE firstAdded
  /\ UNCHANGED <<pageVars, posts, loopVars, navVars, histVars, saveVars,
                 parserVars, pureVars>>

\* clear(): lines 68-71
DriverClear ==
  /\ collectedReels' = <<>>
  /\ networkReels' = <<>>
  /\ addCalls' = [i \in Ids |-> 0]
  /\ firstAdded' = [i \in Ids |-> NullReel]
  /\ lastArg' = NullReel
  /\ lastRet' = "none"
  /\ UNCHANGED <<pageVars, posts, loopVars, navVars, histVars, saveVars,
                 parserVars, pureVars>>

\* savePost(persona, 'reels', r) called directly
DriverSave(r, ioError) ==
  /\ saveCalls < MaxSaves
  /\ saveCalls' = saveCalls + 1
  /\ LET res == savePost(posts, r, ioError)
     IN  /\ posts' = res.posts
         /\ lastSaveRet' = IF res.saved THEN "true" ELSE "false"
  /\ lastSaveArg' = r
  /\ UNCHANGED <<pageVars, collectorVars, loopVars, navVars, histVars,
                 addVars, parserVars, pureVars>>

NextCollector ==
  \/ \E r \in AddArgs : DriverAdd(r)
  \/ DriverClear
  \/ \E r \in AddArgs, ioError \in BOOLEAN : DriverSave(r, ioError)

SpecCollector == InitCollector /\ [][NextCollector]_vars

(***************************************************************************)
(* The interception bridge on its own: a driver hands packets to           *)
(* sendDataToNode.                                                         *)
(***************************************************************************)
InitParser ==
  /\ Constructed
  /\ NoPartials
  /\ feed = Items
  /\ posts = <<>>
  /\ reelsToCollect = 1
  /\ tracking = FALSE

SendData(interceptedData) ==
  /\ sent < MaxPackets
  /\ sent' = sent + 1
  /\ packet' = interceptedData
  /\ sendOutcome' = handlerOutcome(interceptedData)
  /\ search' = searchOf(interceptedData)
  /\ LET r == sendDataToNode(collectedReels, networkReels, interceptedData)
     IN  /\ collectedReels' = r.collectedReels
         /\ networkReels' = r.networkReels
  /\ UNCHANGED <<pageVars, posts, loopVars, navVars, histVars, addVars,
                 saveVars, pureVars>>

NextParser == \E interceptedData \in Packets : SendData(interceptedData)

SpecParser == InitParser /\ [][NextParser]_vars

(***************************************************************************)
(* The backoff of the loop on its own: advances fail in a row, each        *)
(* followed by the backoff computation, until one succeeds.                *)
(***************************************************************************)
\* baseDelay * Math.pow(2, consecutiveNavigationFailures - 1)
exponentialDelay(consecutive) == baseDelay * 2 ^ (consecutive - 1)

\* a backoff without the cap
delayUncapped(consecutive) == exponentialDelay(consecutive)

\* Math.min(exponentialDelay, maxDelay)
delayOf(consecutive) == Min(exponentialDelay(consecutive), maxDelay)

\* Math.random() * 2000, in whole steps
Jitters == {j \in 0..(jitterRange - 1) : j % JitterStep = 0}

InitBackoff ==
  /\ Constructed
  /\ NoPartials
  /\ feed = Items
  /\ posts = <<>>
  /\ reelsToCollect = 1
  /\ tracking = FALSE

\* lines 381-393: one more failure in a row, then the delay
FailedAdvance(jitter) ==
  /\ backoffs < MaxBackoffs
  /\ backoffs' = backoffs + 1
  /\ delay' = delayOf(backoffs + 1)
  /\ finalDelay' = delayOf(backoffs + 1) + jitter
  /\ UNCHANGED <<pageVars, collectorVars, posts, loopVars, navVars,
                 histVars, addVars, saveVars, parserVars, mergeVars,
                 tagVars, moreVars>>

\* lines 398 and 404: a success ends the row
SucceededAdvance ==
  /\ backoffs > 0
  /\ backoffs' = 0
  /\ delay' = 0
  /\ finalDelay' = 0
  /\ UNCHANGED <<pageVars, collectorVars, posts, loopVars, navVars,
                 histVars, addVars, saveVars, parserVars, mergeVars,
                 tagVars, moreVars>>

NextBackoff ==
  \/ \E jitter \in Jitters : FailedAdvance(jitter)
  \/ SucceededAdvance

SpecBackoff == InitBackoff /\ [][NextBackoff]_vars

(***************************************************************************)
(* HashtagExtractor on its own: extractFromGraphQL is called once on an    *)
(* item.                                                                   *)
(***************************************************************************)
InitTags ==
  /\ Constructed
  /\ graphqlData = JSnull
  /\ domData = JSnull
  /\ feed = Items
  /\ posts = <<>>
  /\ reelsToCollect = 1
  /\ tracking = FALSE
  /\ tagItem \in TaggedItems

ExtractTags ==
  /\ tagResult = NotExtracted
  /\ tagResult' = extractFromGraphQL(tagItem)
  /\ UNCHANGED <<pageVars, collectorVars, posts, loopVars, navVars,
                 histVars, addVars, saveVars, parserVars, mergeVars,
                 backoffVars, tagItem, moreVars>>

NextTags == ExtractTags

SpecTags == InitTags /\ [][NextTags]_vars

(***************************************************************************)
(* The drain step (scraper.js:290-322) on its own, run once on a cache of  *)
(* up to MaxCached records of which the first ones are in reels already;   *)
(* the counter is at most the length of reels, the posts file holds the    *)
(* rows of the records counted, and the loop guard has let the iteration   *)
(* start.                                                                  *)
(***************************************************************************)
CachedIds == <<"A", "B", "C", "D", "E", "F", "G">>

cachedReels(n) == [k \in 1..n |-> [post_id |-> CachedIds[k], src |-> "net"]]

rowsOf(rs) == [k \in 1..Len(rs) |-> Row(rs[k])]

DrainArgs ==
  {[cache |-> cachedReels(n), reels |-> cachedReels(j),
    posts |-> rowsOf(cachedReels(collected)), collected |-> collected,
    target |-> target, failing |-> failing] :
     n \in 0..MaxCached, j \in 0..MaxCached, collected \in 0..MaxCached,
     target \in 1..MaxDrainTarget,
     failing \in {{}, {CachedIds[1]}, {CachedIds[MaxCached]}}}

InitDrain ==
  /\ Constructed
  /\ NoPartials
  /\ feed = Items
  /\ posts = <<>>
  /\ reelsToCollect = 1
  /\ tracking = FALSE

DrainCall(args) ==
  /\ drainResult = NotDrained
  /\ Len(args.reels) <= Len(args.cache)
  /\ args.collected <= Len(args.reels)
  /\ args.collected < args.target
  /\ drainArgs' = args
  /\ drainResult' =
       drainRun(drainList(args.cache, args.reels, args.collected,
                          args.target),
                args.posts, args.reels, args.collected, args.target,
                args.failing)
  /\ UNCHANGED <<pageVars, collectorVars, posts, loopVars, navVars,
                 histVars, addVars, saveVars, parserVars, mergeVars,
                 backoffVars, tagVars, csvVars, runVars, verifyVars,
                 fetches, cacheVars>>

NextDrain == \E args \in DrainArgs : DrainCall(args)

SpecDrain == InitDrain /\ [][NextDrain]_vars

(***************************************************************************)
(* verifyNavigation (browser-lifecycle.js:440-471) called once, with       *)
(* either bound.  The page shows another item from some check on or never; *)
(* it holds no video element with a source, or the one of the item it was  *)
(* on (only while it stays there), or a newly loaded one.                  *)
(***************************************************************************)
Videos == {"none", "old", "new"}

\* page.$('video[src], video[srcset]') finds an element
videoFound(video) == video # "none"

VerifyArgs ==
  {a \in [maxWaitTime : {PageDownMaxWait, DefaultMaxWait},
          changeAt : {k * checkInterval : k \in 0..MaxChecks},
          video : Videos] :
     a.video = "old" => a.changeAt = 0}

InitVerify ==
  /\ Constructed
  /\ NoPartials
  /\ feed = Items
  /\ posts = <<>>
  /\ reelsToCollect = 1
  /\ tracking = FALSE

VerifyCall(args) ==
  /\ verifyResult = NotVerified
  /\ verifyArgs' = args
  /\ verifyResult' =
       [value |-> verifyNavigation(args.maxWaitTime, args.changeAt,
                                   videoFound(args.video)),
        waitedTime |-> verifyWaited(0, args.maxWaitTime, args.changeAt,
                                    videoFound(args.video))]
  /\ UNCHANGED <<pageVars, collectorVars, posts, loopVars, navVars,
                 histVars, addVars, saveVars, parserVars, mergeVars,
                 backoffVars, tagVars, csvVars, runVars, drainVars,
                 fetches, cacheVars>>

NextVerify == \E args \in VerifyArgs : VerifyCall(args)

SpecVerify == InitVerify /\ [][NextVerify]_vars

(***************************************************************************)
(* One CSVStorage with its cache of the file's post ids                    *)
(* (interactive-browser.js:386-454, 914-959): savePost and hasPost are     *)
(* called in any order; the append may throw, and so may the read of the   *)
(* file when the cache is reloaded.  An id may come with a space around    *)
(* it, which the cell written and the lookup both drop.                    *)
(***************************************************************************)
CacheIds == {"A", "B", "A "}

\* String.prototype.trim on these
trim(s) == IF s = "A " THEN "A" ELSE s

\* escapeCSV of an id without comma, quote or line break: whitespace runs
\* become one space, the ends are trimmed (lines 889-903)
escapeCSV(s) == trim(s)

\* parseCSVLine and parts[7] of a row savePost wrote (lines 407-421)
rowId(row) == trim(row.post_id)

\* getExistingPostIds, lines 386-433: the cache when it is valid, else the
\* ids read from the file; a read that throws leaves an empty set, marked
\* valid
getExistingPostIds(st, readError) ==
  IF st.valid
  THEN st
  ELSE IF readError
       THEN [st EXCEPT !.cache = {}, !.valid = TRUE]
       ELSE [st EXCEPT !.cache = {rowId(st.rows[k]) :
                                    k \in 1..Len(st.rows)} \ {NoId},
                       !.valid = TRUE]

\* hasPost(postId), lines 440-446: the storage after the call, its value
hasPostCached(st, postId, readError) ==
  IF postId = NoId
  THEN [st |-> st, value |-> FALSE]
  ELSE LET loaded == getExistingPostIds(st, readError)
       IN  [st |-> loaded, value |-> trim(postId) \in loaded.cache]

\* savePost(persona, 'reels', postData), lines 914-959, with the cache
savePostCached(st, postData, ioError, readError) ==
  IF postData = NullReel \/ postData.post_id = NoId
  THEN [st |-> st, value |-> FALSE]
  ELSE LET has == hasPostCached(st, postData.post_id, readError)
       IN  IF has.value
           THEN [st |-> has.st, value |-> FALSE]
           ELSE IF ioError
                THEN [st |-> has.st, value |-> FALSE]
                ELSE [st |-> [has.st EXCEPT
                                !.rows = Append(@,
                                  [persona_id |-> "persona_a",
                                   feed_type |-> "reels",
                                   post_id |->
                                     escapeCSV(postData.post_id)]),
                                !.valid = FALSE],
                      value |-> TRUE]

storageState == [rows |-> csvRows, cache |-> idCache, valid |-> cacheValid]

InitCache ==
  /\ Constructed
  /\ NoPartials
  /\ feed = Items
  /\ posts = <<>>
  /\ reelsToCollect = 1
  /\ tracking = FALSE

UnchangedByCache ==
  UNCHANGED <<pageVars, collectorVars, posts, loopVars, navVars, histVars,
              addVars, saveVars, parserVars, mergeVars, backoffVars,
              tagVars, csvCalls, runVars, drainVars, verifyVars, fetches>>

CacheSave(postId, ioError, readError) ==
  /\ Len(cacheCalls) < MaxCacheCalls
  /\ LET res == savePostCached(storageState,
                               [post_id |-> postId, src |-> "net"],
                               ioError, readError)
     IN  /\ csvRows' = res.st.rows
         /\ idCache' = res.st.cache
         /\ cacheValid' = res.st.valid
         /\ cacheCalls' = Append(cacheCalls,
                                 [op |-> "savePost", post_id |-> postId,
                                  value |-> res.value])
  /\ UnchangedByCache

CacheHas(postId, readError) ==
  /\ Len(cacheCalls) < MaxCacheCalls
  /\ LET res == hasPostCached(storageState, postId, readError)
     IN  /\ csvRows' = res.st.rows
         /\ idCache' = res.st.cache
         /\ cacheValid' = res.st.valid
         /\ cacheCalls' = Append(cacheCalls,
                                 [op |-> "hasPost", post_id |-> postId,
                                  value |-> res.value])
  /\ UnchangedByCache

NextCache ==
  \/ \E postId \in CacheIds \cup {NoId}, ioError \in BOOLEAN,
        readError \in BOOLEAN : CacheSave(postId, ioError, readError)
  \/ \E postId \in CacheIds \cup {NoId}, readError \in BOOLEAN :
       CacheHas(postId, readError)

SpecCache == InitCache /\ [][NextCache]_vars

(***************************************************************************)
(* The window.fetch proxy the NetworkInterceptor installs in the page      *)
(* (src/unnamed/part_007:82-128).  The page makes up to MaxFetches calls,  *)
(* which may overlap; an invocation of the original fetch settles with a   *)
(* response or rejects.                                                    *)
(***************************************************************************)
Settlements == {"response", "failure"}

\* line 90: the apply trap invokes the original fetch
PageFetch(i) ==
  /\ fetches[i].pc = "idle"
  /\ fetches' = [fetches EXCEPT ![i].pc = "awaiting", ![i].invoked = 1]
  /\ UNCHANGED <<pageVars, collectorVars, posts, loopVars, navVars,
                 histVars, addVars, saveVars, parserVars, mergeVars,
                 backoffVars, tagVars, csvVars, runVars, drainVars,
                 verifyVars, cacheVars>>

\* the proxy after the awaited invocation has settled: with a response it
\* goes on to clone it (lines 92-98); a rejection is caught by the outer
\* catch, which invokes the original fetch again and returns what that
\* gives (lines 122-124)
afterFirst(f, settled) ==
  IF settled = "response"
  THEN [f EXCEPT !.pc = "cloning", !.outcomes = Append(@, settled)]
  ELSE [f EXCEPT !.pc = "awaiting again", !.outcomes = Append(@, settled),
                 !.invoked = @ + 1]

FetchSettles(i, settled) ==
  /\ fetches[i].pc = "awaiting"
  /\ fetches' = [fetches EXCEPT ![i] = afterFirst(@, settled)]
  /\ UNCHANGED <<pageVars, collectorVars, posts, loopVars, navVars,
                 histVars, addVars, saveVars, parserVars, mergeVars,
                 backoffVars, tagVars, csvVars, runVars, drainVars,
                 verifyVars, cacheVars>>

\* lines 93-98 and 104-121: response.clone(); when it throws the response
\* is returned at once, else the relay is queued and the response returned
CloneResponse(i, cloned) ==
  /\ fetches[i].pc = "cloning"
  /\ fetches' = [fetches EXCEPT ![i].pc = "returned",
                                ![i].received = <<1, "response">>,
                                ![i].relay = IF cloned THEN "queued"
                                             ELSE "none"]
  /\ UNCHANGED <<pageVars, collectorVars, posts, loopVars, navVars,
                 histVars, addVars, saveVars, parserVars, mergeVars,
                 backoffVars, tagVars, csvVars, runVars, drainVars,
                 verifyVars, cacheVars>>

\* line 123: the second invocation settles; the page gets its outcome
SecondSettles(i, settled) ==
  /\ fetches[i].pc = "awaiting again"
  /\ fetches' = [fetches EXCEPT ![i].pc = "returned",
                                ![i].outcomes = Append(@, settled),
                                ![i].received = <<2, settled>>]
  /\ UNCHANGED <<pageVars, collectorVars, posts, loopVars, navVars,
                 histVars, addVars, saveVars, parserVars, mergeVars,
                 backoffVars, tagVars, csvVars, runVars, drainVars,
                 verifyVars, cacheVars>>

\* lines 105-120: the queued relay reads the clone's text and hands it to
\* sendDataToNode; whatever fails there is swallowed
Relay(i, relayed) ==
  /\ fetches[i].relay = "queued"
  /\ fetches' = [fetches EXCEPT ![i].bodyRead = "clone",
                                ![i].relay = IF relayed THEN "sent"
                                             ELSE "failed"]
  /\ UNCHANGED <<pageVars, collectorVars, posts, loopVars, navVars,
                 histVars, addVars, saveVars, parserVars, mergeVars,
                 backoffVars, tagVars, csvVars, runVars, drainVars,
                 verifyVars, cacheVars>>

InitFetch ==
  /\ Constructed
  /\ NoPartials
  /\ feed = Items
  /\ posts = <<>>
  /\ reelsToCollect = 1
  /\ tracking = FALSE

NextFetch ==
  \E i \in 1..MaxFetches :
    \/ PageFetch(i)
    \/ \E settled \in Settlements : FetchSettles(i, settled)
    \/ \E cloned \in BOOLEAN : CloneResponse(i, cloned)
    \/ \E settled \in Settlements : SecondSettles(i, settled)
    \/ \E relayed \in BOOLEAN : Relay(i, relayed)

SpecFetch == InitFetch /\ [][NextFetch]_vars

(***************************************************************************)
(* The posts file written for several personas: every CSVStorage is built  *)
(* on the same data directory, so the sessions of all personas append to   *)
(* one posts.csv.  A driver calls savePost with any persona, feed type and *)
(* record; the duplicate check is left at its default, as every caller in  *)
(* the program leaves it.                                                  *)
(***************************************************************************)
Personas == {"persona_a", "persona_b"}
FeedTypes == {"reels", "explore"}

\* the row savePost builds, lines 927-945: of its 17 fields the three that
\* tell a reel, a persona and a feed type apart
CsvRow(persona, feedType, postData) ==
  [persona_id |-> persona, feed_type |-> feedType,
   post_id |-> postData.post_id]

\* savePost(persona, feedType, postData, skipDuplicateCheck), lines 914-959
\* (skip: its skipDuplicateCheck)
savePostFor(rows, persona, feedType, postData, skip, ioError) ==
  IF postData = NullReel \/ postData.post_id = NoId
  THEN [posts |-> rows, saved |-> FALSE]
  ELSE IF ~skip /\ hasPost(rows, postData.post_id)
       THEN [posts |-> rows, saved |-> FALSE]
       ELSE IF ioError
            THEN [posts |-> rows, saved |-> FALSE]
            ELSE [posts |-> Append(rows, CsvRow(persona, feedType,
                                                postData)),
                  saved |-> TRUE]

InitCsv ==
  /\ Constructed
  /\ NoPartials
  /\ feed = Items
  /\ posts = <<>>
  /\ reelsToCollect = 1
  /\ tracking = FALSE

CsvSave(persona, feedType, postData, ioError) ==
  /\ Len(csvCalls) < MaxCsvCalls
  /\ LET res == savePostFor(csvRows, persona, feedType, postData, FALSE,
                            ioError)
     IN  /\ csvRows' = res.posts
         /\ csvCalls' = Append(csvCalls,
                               [persona_id |-> persona,
                                feed_type |-> feedType,
                                post_id |-> IF postData = NullReel
                                            THEN NoId
                                            ELSE postData.post_id,
                                ioError |-> ioError,
                                saved |-> res.saved])
  /\ UNCHANGED <<pageVars, collectorVars, posts, loopVars, navVars,
                 histVars, addVars, saveVars, parserVars, mergeVars,
                 backoffVars, tagVars, runVars, drainVars, verifyVars,
                 fetches, cacheVars>>

NextCsv ==
  \E persona \in Personas, feedType \in FeedTypes, postData \in AddArgs,
     ioError \in BOOLEAN : CsvSave(persona, feedType, postData, ioError)

SpecCsv == InitCsv /\ [][NextCsv]_vars

(***************************************************************************)
(* scrapeAllPersonas and scrapePersona (src/unnamed/part_004): the         *)
(* personas are scraped one after another; a session's stages are loading  *)
(* the persona and starting the browser, the login, and scrapeReelsFeed.   *)
(***************************************************************************)
Errors == {"AccountSuspendedError", "Error"}

isSuspension(error) == error = "AccountSuspendedError"

\* how scrapePersona ends when `error` is thrown at `stage`: the inner
\* try around scrapeReelsFeed catches everything (lines 186-189), the
\* outer catch returns on a suspension (200-211) and rethrows the rest
\* (213)
scrapePersona(stage, error) ==
  IF error = "none"
  THEN "returned"
  ELSE IF stage = "scrape"
       THEN "returned"
       ELSE IF isSuspension(error)
            THEN "returned"
            ELSE error

\* the wait scrapeAllPersonas makes after persona i: lines 243-248 after a
\* return, 251-271 in its catch
waitAfter(end, i, n) ==
  IF end = "returned"
  THEN IF i < n - 1 THEN delayBetweenPersonas ELSE 0
  ELSE IF isSuspension(end)
       THEN IF i < n - 1 THEN suspensionCooldown ELSE 0
       ELSE 0

InitRun ==
  /\ Constructed
  /\ NoPartials
  /\ feed = Items
  /\ posts = <<>>
  /\ reelsToCollect = 1
  /\ tracking = FALSE

UnchangedByRun ==
  UNCHANGED <<pageVars, collectorVars, posts, loopVars, navVars, histVars,
              addVars, saveVars, parserVars, mergeVars, backoffVars,
              tagVars, csvVars, drainVars, verifyVars, fetches,
              cacheVars>>

\* lines 237-238, and the for loop's first test
LoadAllPersonas(n) ==
  /\ runPc = "start"
  /\ nPersonas' = n
  /\ runPc' = IF 0 < n THEN "persona" ELSE "done"
  /\ UNCHANGED <<runI, runEnd, runSuspended, runLog>>
  /\ UnchangedByRun

\* scrapePersona up to scraper.initialize(), lines 83-119
StartPersona(error) ==
  /\ runPc = "persona"
  /\ runEnd' = scrapePersona("start", error)
  /\ runPc' = IF error = "none" THEN "login" ELSE "ended"
  /\ UNCHANGED <<nPersonas, runI, runSuspended, runLog>>
  /\ UnchangedByRun

\* scraper.login(), line 122: LoginFlow.handleLogin throws
\* AccountSuspendedError on the suspension page and Error on a failed login
Login(error) ==
  /\ runPc = "login"
  /\ runEnd' = scrapePersona("login", error)
  /\ runSuspended' = isSuspension(error)
  /\ runPc' = IF error = "none" THEN "scrape" ELSE "ended"
  /\ UNCHANGED <<nPersonas, runI, runLog>>
  /\ UnchangedByRun

\* scraper.scrapeReelsFeed(...) and the session summary, lines 129-190
ScrapeFeed(error) ==
  /\ runPc = "scrape"
  /\ runEnd' = scrapePersona("scrape", error)
  /\ runSuspended' = isSuspension(error)
  /\ runPc' = "ended"
  /\ UNCHANGED <<nPersonas, runI, runLog>>
  /\ UnchangedByRun

\* scrapeAllPersonas after scrapePersona has ended: the wait, then i++
NextPersona ==
  /\ runPc = "ended"
  /\ runLog' = Append(runLog,
                      [suspended |-> runSuspended,
                       waited |-> waitAfter(runEnd, runI, nPersonas)])
  /\ runI' = runI + 1
  /\ runPc' = IF runI + 1 < nPersonas THEN "persona" ELSE "done"
  /\ runEnd' = "none"
  /\ runSuspended' = FALSE
  /\ UNCHANGED nPersonas
  /\ UnchangedByRun

NextRun ==
  \/ \E n \in 0..MaxPersonas : LoadAllPersonas(n)
  \/ \E error \in {"none", "Error"} : StartPersona(error)
  \/ \E error \in {"none"} \cup Errors : Login(error)
  \/ \E error \in {"none"} \cup Errors : ScrapeFeed(error)
  \/ NextPersona

SpecRun == InitRun /\ [][NextRun]_vars

(***************************************************************************)
(* ReelDataTransformer on its own: merge is called once on a pair of       *)
(* partials.                                                               *)
(***************************************************************************)
InitMerge ==
  /\ Constructed
  /\ feed = Items
  /\ posts = <<>>
  /\ reelsToCollect = 1
  /\ tracking = FALSE
  /\ graphqlData \in GraphqlPartials
  /\ domData \in DomPartials
  /\ tagItem = NoTagItem

MergeCall ==
  /\ merged = NotMerged
  /\ merged' = merge(graphqlData, domData)
  /\ UNCHANGED <<pageVars, collectorVars, posts, loopVars, navVars,
                 histVars, addVars, saveVars, parserVars, graphqlData,
                 domData, backoffVars, tagVars, moreVars>>

NextMerge == MergeCall

SpecMerge == InitMerge /\ [][NextMerge]_vars

(***************************************************************************)
(* The end-to-end scenario: a session with target 3 on a feed of three     *)
(* items; interception delivers packets for the first two items only; no   *)
(* page call throws, no write fails, the page is not moved away; an        *)
(* advance either moves the page at the first check or never.              *)
(***************************************************************************)
InitE2E ==
  /\ Constructed
  /\ NoPartials
  /\ feed = Items
  /\ posts = <<>>
  /\ reelsToCollect = Len(Items)
  /\ tracking = TRUE

NextE2E ==
  \/ \E id \in {Items[1], Items[2]} : Intercept(id)
  \/ Setup("ok")
  \/ LoopTop
  \/ \E jitter \in PollJitters : PollWait(jitter)
  \/ \E ok \in BOOLEAN : TakeScreenshot(ok)
  \/ DomExtract(TRUE)
  \/ DrainUnsaved({})
  \/ PersistCurrent(FALSE)
  \/ Advance
  \/ \E changeAt \in {0, checkInterval} :
       NavStrategy(FALSE, TRUE, changeAt, FALSE)
  \/ NavReturn
  \/ Backoff

SpecE2E == InitE2E /\ [][NextE2E]_vars

(***************************************************************************)
(* Properties.                                                             *)
(***************************************************************************)

\* C1: once the loop has found an account block (it is off the feed and
\* checkForSuspension is true) it runs no further iteration, and the
\* caller of scrapeReelsFeed gets AccountSuspendedError.
C1_BlockEndsSession ==
  blockDetected =>
    /\ pc \notin {"poll", "screenshot", "dom", "attach", "persist",
                  "advance", "backoff", "off_prompt", "recovery"}
    /\ pc = "done" => outcome = "AccountSuspendedError"

C3_OnlySavedCounts ==
  [][(pc \in {"attach", "persist"}) =>
       /\ reelsCollected' - reelsCollected = Len(posts') - Len(posts)
       /\ Len(posts') = Len(posts) =>
            /\ navigationFailures' >= navigationFailures
            /\ consecutiveNavigationFailures' >=
                 consecutiveNavigationFailures
       /\ (/\ pc = "persist"
           /\ reelData # NullReel
           /\ reelData.post_id \notin IdsOf(reels)
           /\ hasPost(posts, reelData.post_id)) =>
            /\ reelsCollected' = reelsCollected
            /\ navigationFailures' = navigationFailures
            /\ consecutiveNavigationFailures' =
                 consecutiveNavigationFailures
    ]_vars

\* C4: no step of a session lowers navigationFailures.
C4_CumulativeNeverDecreases ==
  [][navigationFailures' >= navigationFailures]_vars

C6_CapsStopTheLoop ==
  [][/\ (\/ navigationFailures >= maxFailures
         \/ consecutiveNavigationFailures
              >= maxConsecutiveNavigationFailures) => ~LoopCondition'
     /\ (/\ pc = "nav_ret"
         /\ navCaller = "first"
         /\ navResult = "false"
         /\ consecutiveNavigationFailures' < maxConsecutiveNavigationFailures)
          => pc' = "backoff"
     /\ pc = "backoff" => navCaller' = "retry"
     /\ (pc = "nav_ret" /\ navCaller = "retry") => pc' = "guard"
    ]_vars

\* C7: in a navigateToNextReel call the strategies tried are a prefix of
\* ArrowDown, ArrowRight, ButtonClick, Swipe, PageDown; while a strategy
\* is still to run, every earlier one has run and none has verified; the
\* call returns true exactly when a verification succeeded, and false
\* only after all five have run (or when there was no item id to start
\* from).
C7_StrategyOrder ==
  /\ pc \in {"nav", "nav_ret"} =>
       /\ Len(navTried) <= Len(Strategies)
       /\ navTried = SubSeq(Strategies, 1, Len(navTried))
  /\ pc = "nav" =>
       /\ Len(navTried) = navStrategy - 1
       /\ navAccept = "none"
       /\ navResult = "none"
  /\ pc = "nav_ret" =>
       /\ navResult \in {"true", "false"}
       /\ navResult = "true" <=> navAccept # "none"
       /\ navResult = "false" => (navTried = Strategies \/ navFrom = NoId)

\* C7 happens: a call has returned true after ArrowDown and ArrowRight
\* failed and the Next-button click verified.
C7_ThirdStrategyVerified ==
  /\ pc = "nav_ret"
  /\ navResult = "true"
  /\ navTried = SubSeq(Strategies, 1, 3)

\* the advance calls logged are complete and are: successes, two failed
\* advances in a row (the first calls of two iterations in a row fail and
\* no call between them succeeds), a success, successes
TwoAdvancesFailed ==
  /\ Len(navLog) < MaxLog
  /\ LET failedFirst == {j \in 1..Len(navLog) :
                           navLog[j].caller = "first" /\ ~navLog[j].ok}
     IN  /\ Cardinality(failedFirst) = 2
         /\ \A j \in 1..Len(navLog) :
              (\E x, y \in failedFirst : x <= j /\ j < y) => ~navLog[j].ok
         /\ Len(navLog) \notin failedFirst
         /\ navLog[Len(navLog)].ok

\* C8: a session with target 3 in which interception supplied A and B and
\* the DOM fallback C, and two advances in a row failed and then
\* navigation succeeded, ends with exactly the three rows A, B
\* (intercepted) and C (from the DOM), navigationFailures = 2, and the
\* list returned.
C8_EndToEnd ==
  (/\ pc = "done"
   /\ tracking
   /\ reelsToCollect = 3
   /\ collectedReels # <<>>
   /\ \A k \in 1..Len(collectedReels) :
        collectedReels[k].src = "dom" <=> collectedReels[k].post_id = "C"
   /\ TwoAdvancesFailed) =>
    /\ outcome = "returned"
    /\ reelsCollected = 3
    /\ Len(posts) = 3
    /\ Range(posts) = {Row([post_id |-> "A", src |-> "net"]),
                       Row([post_id |-> "B", src |-> "net"]),
                       Row([post_id |-> "C", src |-> "dom"])}
    /\ navigationFailures = 2

\* C9: every record of the list scrapeReelsFeed returns was written to
\* storage in this session, and the list is as long as reelsCollected.
C9_ReturnedWereSaved ==
  (pc = "done" /\ outcome = "returned") =>
    /\ Len(reels) = reelsCollected
    /\ \A k \in 1..Len(reels) : Row(reels[k]) \in Range(posts)

\* C10: a row written in this session holds the data of the record the
\* cache holds for its id, whichever path lost the insertion.
C10_PersistedIsCached ==
  \A k \in 1..Len(posts) :
    posts[k].src # "old" =>
      Row(getReel(collectedReels, posts[k].post_id)) = posts[k]

\* C11: however the interception callbacks interleave with the loop's own
\* DOM-fallback insertion, the cache holds at most one entry per id; the
\* insertions that took effect for an id (each pushes onto networkReels)
\* are as many as its entries, and after the loop has resolved a record
\* (from the cache, or from the DOM with its own insertion attempt) there
\* is exactly one entry for its id.
C11_OneInsertionPerId ==
  /\ \A i \in Ids :
       /\ countOf(collectedReels, i) <= 1
       /\ countOf(networkReels, i) = countOf(collectedReels, i)
  /\ (pc \in {"attach", "persist"} /\ reelData # NullReel) =>
       /\ countOf(collectedReels, reelData.post_id) = 1
       /\ countOf(networkReels, reelData.post_id) = 1

\* C11 happens: a packet for the current item was delivered while the loop
\* awaited the DOM extraction, and the loop's insertion came second.
C11_BothPathsAttempted ==
  /\ pc = "attach"
  /\ reelData # NullReel
  /\ reelData.src = "dom"
  /\ getReel(collectedReels, reelData.post_id).src = "net"

\* C12: from the moment a record is in the cache until clear(), its entry
\* stays what it was, field by field: no step replaces the entry, moves
\* it or writes a field of the cached object.
C12_CachedEntryUnchanged ==
  [][(pc # "setup") =>
       \A k \in 1..Len(collectedReels) :
         /\ k <= Len(collectedReels')
         /\ collectedReels'[k] = collectedReels[k]
         /\ shots'[collectedReels[k]] = shots[collectedReels[k]]
    ]_vars

\* C13: every record the cache holds and every row savePost has appended
\* has a non-empty id, whatever was offered to them.
C13_NoIdlessRecord ==
  /\ \A k \in 1..Len(collectedReels) : collectedReels[k].post_id # NoId
  /\ \A k \in 1..Len(networkReels) : networkReels[k].post_id # NoId
  /\ \A k \in 1..Len(posts) : posts[k].post_id # NoId

\* C13 happens: a record without an id has been offered to addReel and to
\* savePost, and a record with an id has been cached and stored.
C13_IdlessOffered ==
  /\ lastArg # NullReel
  /\ lastArg.post_id = NoId
  /\ lastRet = "undefined"
  /\ lastSaveArg # NullReel
  /\ lastSaveArg.post_id = NoId
  /\ lastSaveRet = "false"
  /\ collectedReels # <<>>
  /\ posts # <<>>

\* the cases of C14: a data-query packet of well-formed JSON that is (a) a
\* single-item shape, (b) a feed-connection list, (c) a bare item array,
\* (d) an unrecognized shape with one nested item that says it is a video,
\* within the search depth
IsShapeCase(p) ==
  /\ p.query
  /\ p.valid
  /\ \/ p.payload \in SinglePayloads
     \/ p.payload \in ConnectionPayloads
     \/ p.payload \in ArrayPayloads /\ p.payload.top = "array"
     \/ /\ p.payload \in NestedPayloads
        /\ p.payload.items[1].video
        /\ p.payload.depth <= SearchDepth

\* C14: after a packet of one of the four shapes has gone through the
\* handler, the cache holds a record for every item of it that has an id.
C14_AllShapesYield ==
  (sent > 0 /\ IsShapeCase(packet)) =>
    \A k \in 1..Len(packet.payload.items) :
      packet.payload.items[k].code # NoId =>
        /\ hasReel(collectedReels, packet.payload.items[k].code)
        /\ getReel(collectedReels, packet.payload.items[k].code).src
             = "net"

\* C15: a packet that carries the prefix leaves the collector as the same
\* packet without the prefix would have left it.
C15_PrefixParsesAlike ==
  [][(sent' = sent + 1 /\ packet'.prefix) =>
       \A sp \in BOOLEAN :
         LET r == sendDataToNode(collectedReels, networkReels,
                                 [packet' EXCEPT !.prefix = FALSE,
                                                 !.space = sp])
         IN  /\ collectedReels' = r.collectedReels
             /\ networkReels' = r.networkReels
    ]_vars

\* C15 happens: a packet with the prefix has added a record.
C15_PrefixedPacketParsed ==
  /\ sent > 0
  /\ packet.prefix
  /\ packet.space
  /\ Len(packet.payload.items) > 0
  /\ hasReel(collectedReels, packet.payload.items[1].code)
  /\ Len(collectedReels) = 2

present(f) == f.k = "value"
renderedOr(f, none) == IF present(f) THEN f.v ELSE none

MergedSameId ==
  /\ merged # NotMerged
  /\ graphqlData.isObject
  /\ domData.isObject
  /\ graphqlData.post_id = Value(Items[1])
  /\ domData.post_id = Value(Items[1])

\* C16: merge of an intercepted and a rendered partial of the same id: a
\* scalar the intercepted partial has takes the intercepted value, a scalar
\* it does not have takes the rendered value, and the merged tags are the
\* union of both tag sets.
C16_MergePrecedence ==
  MergedSameId =>
    /\ merged.likes_count =
         IF present(graphqlData.likes_count)
         THEN graphqlData.likes_count.v
         ELSE renderedOr(domData.likes_count, 0)
    /\ merged.caption =
         IF present(graphqlData.caption)
         THEN graphqlData.caption.v
         ELSE renderedOr(domData.caption, "null")
    /\ Range(merged.hashtags) =
         Range(hashtagsOrEmpty(graphqlData))
           \cup Range(hashtagsOrEmpty(domData))

LacksId(o) == ~o.isObject \/ ~present(o.post_id)

\* C17: merge of two partials that both lack an id, or of two absent
\* partials, returns null.
C17_IdlessMergeIsNull ==
  (merged # NotMerged /\ LacksId(graphqlData) /\ LacksId(domData))
    => merged = NullRecord

\* C18: the delay before jitter of the backoff after 1, 2, 3 failures in a
\* row is 2000 ms doubled per further failure, does not decrease as the
\* failures grow, and never exceeds the maximum of 15000 ms.
C18_BackoffMonotoneCapped ==
  [][(backoffs' = backoffs + 1) =>
       /\ delay' <= maxDelay
       /\ (backoffs >= 1) => (delay' >= delay)
       /\ (backoffs' = 1) => (delay' = baseDelay)
       /\ (backoffs \in 1..2) => (delay' = 2 * delay)
    ]_vars

C18_ThirdBackoff ==
  /\ backoffs = 3
  /\ delay = 4 * baseDelay
  /\ finalDelay > delay

\* C19: when an advance call of the loop, the first of an iteration or the
\* retry after the backoff, returns true, the failures in a row are 0 when
\* the loop goes on to its next iteration.
C19_SuccessResetsConsecutive ==
  [][(/\ pc = "nav_ret"
      /\ navCaller \in {"first", "retry"}
      /\ navResult = "true"
      /\ pc' # pc) =>
       /\ consecutiveNavigationFailures' = 0
       /\ pc' = "guard"
    ]_vars

C19_RetrySucceededAfterFailure ==
  /\ pc = "nav_ret"
  /\ navCaller = "retry"
  /\ navResult = "true"
  /\ consecutiveNavigationFailures > 0

CapEnded ==
  /\ pc = "done"
  /\ reelsCollected < reelsToCollect
  /\ \/ navigationFailures >= maxFailures
     \/ consecutiveNavigationFailures >= maxConsecutiveNavigationFailures

\* C21: a session that ended on a failure cap hands its caller something
\* a session that reached its target never hands back: an error, or at
\* least a list shorter than the target.
C21_FatalEndDistinguished ==
  CapEnded => (outcome # "returned" \/ Len(reels) < reelsToCollect)

\* C22: every session ends: whatever the saves, the extractions and the
\* advances return, the loop reaches its end.
C22_SessionEnds == <>(pc = "done")

\* C23: an iteration whose screenshot failed goes on: the failure changes
\* no counter and does not end the session, and the record of the
\* iteration, if there is one, has '' as its screenshot path and is in
\* reels and in the posts file when the iteration advances.
C23_ScreenshotFailureGoesOn ==
  [][/\ (pc = "screenshot" /\ pc' # pc /\ screenshotPath' = "null") =>
          /\ pc' \in {"attach", "dom"}
          /\ outcome' = outcome
          /\ reelsCollected' = reelsCollected
          /\ navigationFailures' = navigationFailures
          /\ consecutiveNavigationFailures' =
               consecutiveNavigationFailures
     /\ (/\ pc = "attach"
         /\ pc' # pc
         /\ screenshotPath = "null"
         /\ reelData # NullReel) =>
          /\ pc' = "persist"
          /\ reelData' = reelData
          /\ shots'[reelData] = ""
     /\ (/\ pc = "persist"
         /\ pc' # pc
         /\ reelData # NullReel
         /\ shots[reelData] = "") =>
          /\ pc' = "advance"
          /\ reelData.post_id \in IdsOf(reels')
          /\ reelData.post_id \in IdsOf(posts')
    ]_vars

C23_RecordWithoutScreenshot ==
  /\ pc = "persist"
  /\ reelData # NullReel
  /\ shots[reelData] = ""
  /\ reelData.post_id \in IdsOf(posts)

\* a packet the handler has nothing to take from: not for the data-query
\* endpoint, a body that does not parse, a body without `data`, or a body
\* whose `data` has none of the known keys and no video item within the
\* search depth
IsDropCase(p) ==
  \/ ~p.query
  \/ ~p.valid
  \/ p.payload.top # "data"
  \/ /\ p.payload.key \notin SingleKeys \cup {ConnectionKey}
     /\ \/ p.payload.depth > SearchDepth
        \/ \A k \in 1..Len(p.payload.items) : ~p.payload.items[k].video

\* C24: the handler ends normally on every packet, and a packet it has
\* nothing to take from leaves the cache as it was.
C24_HandlerNeverFails ==
  [][(sent' = sent + 1) =>
       /\ sendOutcome' \in {"returned", "caught"}
       /\ IsDropCase(packet') =>
            /\ collectedReels' = collectedReels
            /\ networkReels' = networkReels
    ]_vars

C24_BadBodyAfterRecord ==
  /\ sent > 1
  /\ packet.query
  /\ ~packet.valid
  /\ sendOutcome = "caught"
  /\ collectedReels # <<>>

\* C25: the list holds the records of the map, each once and in the order
\* in which their ids were first added; getAllReels() gives that order; an
\* addReel of a new id appends to both and any other addReel changes
\* neither; after clear() both are empty.
C25_ListMirrorsMap ==
  [][/\ networkReels' = getAllReels(collectedReels')
     /\ \A i, j \in 1..Len(networkReels') :
          i # j => networkReels'[i].post_id # networkReels'[j].post_id
     /\ \A id \in Ids :
          (addCalls'[id] = addCalls[id] + 1) =>
            getAllReels(collectedReels') =
              IF addCalls[id] = 0
              THEN Append(getAllReels(collectedReels), lastArg')
              ELSE getAllReels(collectedReels)
     /\ (lastRet # "none" /\ lastRet' = "none") =>
          /\ size(collectedReels') = 0
          /\ networkReels' = <<>>
    ]_vars

C25_ThreeInArrivalOrder ==
  /\ Len(networkReels) = Len(Items)
  /\ networkReels[1].post_id = Items[2]
  /\ addCalls[Items[2]] > 1

\* the names a place holds, as tags ignoring case and a leading #
placeNames(place) ==
  IF place.has
  THEN {stripHash(toLowerCase(place.tags[i])) :
          i \in {k \in 1..Len(place.tags) : place.tags[k] # ""}}
  ELSE {}

\* C26: the tags of the record parsed from an item are the union of what
\* the three methods find in it (the tag edges, the tag array, the tags of
\* the caption), and no two of them are equal ignoring case.
C26_TagsAreUnion ==
  (tagResult # NotExtracted) =>
    /\ Range(tagResult) =
         placeNames(tagItem.edges) \cup placeNames(tagItem.hashtags)
           \cup placeNames(tagItem.caption)
    /\ \A i, j \in 1..Len(tagResult) :
         i # j => toLowerCase(tagResult[i]) # toLowerCase(tagResult[j])

C26_SameTagThreeWays ==
  /\ tagResult = <<"fun", "art">>
  /\ tagItem.edges.tags = <<"Fun">>
  /\ tagItem.hashtags.tags = <<"#Fun", "art">>
  /\ tagItem.caption.tags = <<"fun", "#art">>

\* C27: the deep search runs only on a body none of the fixed structures
\* matched, and every object it returns is at most 5 levels below `data`,
\* has a code and says it is a video.
C27_SearchIsLastAndStrict ==
  (sent > 0) =>
    /\ search.ran =>
         /\ packet.payload.key # ConnectionKey
         /\ packet.payload.key \notin SingleKeys
    /\ \A k \in 1..Len(search.found) :
         /\ packet.payload.depth <= SearchDepth
         /\ search.found[k].video
         /\ search.found[k].code # NoId

\* C28: the posts file holds one row per reel per persona and feed type:
\* whatever savePost calls were made, each persona, feed type and post id
\* that a call asked to save (with an id, and without the write failing)
\* has exactly one row, so a post id saved for two personas has a row for
\* each of them.
RowsOf(persona, feedType, postId) ==
  {i \in 1..Len(csvRows) :
     /\ csvRows[i].persona_id = persona
     /\ csvRows[i].feed_type = feedType
     /\ csvRows[i].post_id = postId}

C28_OneRowPerPersonaAndFeed ==
  \A k \in 1..Len(csvCalls) :
    (csvCalls[k].post_id # NoId /\ ~csvCalls[k].ioError) =>
      Cardinality(RowsOf(csvCalls[k].persona_id, csvCalls[k].feed_type,
                         csvCalls[k].post_id)) = 1

\* C29: in scrapeAllPersonas, after a persona for which an
\* AccountSuspendedError was raised during login or scraping, and which is
\* not the last persona, the wait before the next persona is the
\* suspension cooldown.
C29_CooldownAfterSuspension ==
  \A k \in 1..Len(runLog) :
    (runLog[k].suspended /\ k < nPersonas) =>
      runLog[k].waited = suspensionCooldown

\* C30: in every state of the scrape loop the collected counter is at most
\* the session's target, counting the saves of the drain step and of the
\* main path of one iteration; and once the counter equals the target no
\* further row is saved and no further advance call is started.
C30_NeverPastTarget ==
  /\ [](reelsCollected <= reelsToCollect)
  /\ [][reelsCollected >= reelsToCollect =>
          /\ posts' = posts
          /\ navCaller = "none" => navCaller' = "none"]_vars

\* the target of two is reached within the first iteration: the drain step
\* has saved the second item's record, the main path the current one's
C30_DrainAndMainReachTarget ==
  /\ pc = "advance"
  /\ redirects = 0
  /\ url = Items[1]
  /\ reelsToCollect = 2
  /\ reelsCollected = reelsToCollect
  /\ Len(reels) = 2
  /\ reels[1].post_id = Items[2]
  /\ reels[2].post_id = Items[1]
  /\ Len(posts) = 2

\* C31: the drain step saves only cached records other than the current
\* item's: it never pushes the record of the item the browser is on, and
\* the main persist step of the iteration always offers that record to the
\* storage (pushes it and calls savePost on it).
C31_DrainLeavesCurrent ==
  [][/\ (pc = "attach" /\ reelData # NullReel) =>
          (reelData.post_id \in IdsOf(reels') =>
             reelData.post_id \in IdsOf(reels))
     /\ (pc = "persist" /\ reelData # NullReel
            /\ reelData.post_id # NoId) =>
          reels' = Append(reels, reelData)]_vars

\* C32: for every record newly saved in a session (its savePost returned
\* true) the engagement decision is asked and the watch time is waited
\* after the save and before the next advance call: when an advance call
\* is under way, every id the session has a row for has been watched.
C32_SavedThenWatched ==
  (tracking /\ navCaller # "none") => IdsOf(posts) \subseteq dwelt

\* C33: in one iteration the drain step saves at most
\* min(3, N - collected) cached records that are not yet in the session's
\* list; when more cached records than that are not in the list, it saves
\* none of them.
C33_DrainBounded ==
  drainResult # NotDrained =>
    LET bound == Min(3, drainArgs.target - drainArgs.collected)
        unsavedCount == Len(drainArgs.cache) - Len(drainArgs.reels)
        savedNow == Len(drainResult.posts) - Len(drainArgs.posts)
    IN  /\ savedNow <= bound
        /\ drainResult.reelsCollected - drainArgs.collected = savedNow
        /\ unsavedCount > bound =>
             /\ savedNow = 0
             /\ drainResult.reels = drainArgs.reels

\* four cached records are not in the list and five are still wanted: the
\* bound is 3 and nothing is saved
C33_FourUnsavedFiveWanted ==
  /\ drainResult # NotDrained
  /\ Len(drainArgs.cache) - Len(drainArgs.reels) = 4
  /\ drainArgs.target - drainArgs.collected = 5
  /\ drainResult.posts = drainArgs.posts

\* C34: the list a session returns never holds two records with the same
\* id, however the interception's deliveries interleave with the loop, the
\* iterations in which the drain step and the main step both see the
\* current item included.
C34_ReelsDistinct ==
  \A i, j \in 1..Len(reels) :
    reels[i].post_id = reels[j].post_id => i = j

\* the drain step has pushed the current item's record, which the main
\* step is about to look at, next to an earlier record
C34_CurrentPushedByDrain ==
  /\ pc = "persist"
  /\ reelData # NullReel
  /\ Len(reels) = 2
  /\ reels[2] = reelData

\* a step of the data-arrival poll: one wait, then one cache check
IsPollStep == pc = "poll" /\ (pc' = "screenshot" \/ pollI' = pollI + 1)

\* what holds of the poll and of the resolution whatever the waits are:
\* at most 10 checks, the poll stops at the first check that finds the
\* id, and the DOM fallback is called only from the resolution step that
\* follows the poll, when the cache lacks the id
PollAndFallback ==
  /\ IsPollStep =>
       /\ pollI < 10
       /\ hasReel(collectedReels, currentReelId) => pc' = "screenshot"
  /\ (pc # "dom" /\ pc' = "dom") =>
       /\ pc = "screenshot"
       /\ pollI = 0
       /\ ~hasReel(collectedReels, currentReelId)

\* C35: the DOM fallback is called for an item only if the cache lacks its
\* id at resolution time, after the poll has finished; the poll makes at
\* most 10 cache checks, the waits between them never get shorter, and it
\* stops at the first check that finds the id.
C35_PollThenFallback ==
  [][/\ PollAndFallback
     /\ (tracking /\ IsPollStep /\ pollI > 0) =>
          pollWaited' >= pollWaited]_vars

\* C35 as the code has it: the same, with each wait drawn between
\* min(300 + 100 i, 1000) ms and 200 ms more, so that the lower end never
\* gets shorter while a wait may be shorter than the one before.
C35_PollWaitsWithinWindow ==
  [][/\ PollAndFallback
     /\ (tracking /\ IsPollStep) =>
          /\ pollWaited' >= Min(300 + 100 * pollI, 1000)
          /\ pollWaited' <= Min(300 + 100 * pollI, 1000) + 200]_vars

\* the tenth check of a poll has been made without finding the id, the
\* last wait at the cap, and the DOM fallback is about to be called
C35_TenChecksThenFallback ==
  /\ tracking
  /\ pc = "dom"
  /\ pollWaited >= 1000
  /\ ~hasReel(collectedReels, currentReelId)

\* C36: the failure counters change only as the outcome of an advance
\* call: either counter goes up only in the step that takes the result of
\* an advance whose strategies have all failed; a failed extraction, a
\* recovery navigation to the feed or an error in the loop body leaves
\* both as they are.
C36_CountersOnlyByAdvance ==
  [][(\/ navigationFailures' > navigationFailures
      \/ consecutiveNavigationFailures' > consecutiveNavigationFailures)
       => (pc = "nav_ret" /\ navResult = "false")]_vars

\* C37: verifyNavigation returns true only if the item id has changed
\* from the starting id, or the id is unchanged, more than 70% of the
\* bound has elapsed and primary media content is newly ready; if the id
\* never changes and no media is ready it returns false once the bound is
\* reached, not earlier and not later than one poll interval past it.
C37_VerifyAcceptsOnlyProgress ==
  verifyResult # NotVerified =>
    LET changed == /\ verifyArgs.changeAt # 0
                   /\ verifyArgs.changeAt <= verifyResult.waitedTime
    IN  /\ verifyResult.value # "false" =>
             \/ changed
             \/ /\ verifyResult.waitedTime * 10 > verifyArgs.maxWaitTime * 7
                /\ verifyArgs.video = "new"
        /\ (verifyArgs.changeAt = 0 /\ verifyArgs.video = "none") =>
             /\ verifyResult.value = "false"
             /\ verifyResult.waitedTime >= verifyArgs.maxWaitTime
             /\ verifyResult.waitedTime <= verifyArgs.maxWaitTime + 300

\* C38: the bound the last-resort strategy (PageDown) verifies with is
\* longer than the default bound of the other strategies.
C38_PageDownBoundLonger ==
  (pc = "nav" /\ Strategies[navStrategy] # "PageDown") =>
    strategyMaxWait("PageDown") > strategyMaxWait(Strategies[navStrategy])

\* C39: the fetch shim does not alter what the page observes: for every
\* call of the page the original fetch is invoked exactly once and the
\* page receives that invocation's outcome, its response or its failure,
\* whether or not cloning and relaying succeed; the body is read from the
\* clone only.
C39_ShimIsTransparent ==
  \A i \in 1..MaxFetches :
    /\ fetches[i].bodyRead \in {"none", "clone"}
    /\ fetches[i].pc = "returned" =>
         /\ fetches[i].invoked = 1
         /\ fetches[i].received = <<1, fetches[i].outcomes[1]>>

\* C40: the storage's duplicate detection stays coherent with the posts
\* file: after savePost has returned true for an id, every later
\* hasPost of the id is true and every later savePost of it (duplicate
\* check not skipped) returns false and appends no row; and whenever the
\* cached id set is marked valid it equals the set of ids in the file.
C40_CacheCoherent ==
  /\ \A k, m \in 1..Len(cacheCalls) :
       (/\ k < m
        /\ cacheCalls[k].op = "savePost"
        /\ cacheCalls[k].value
        /\ trim(cacheCalls[m].post_id) = trim(cacheCalls[k].post_id)) =>
         cacheCalls[m].value = (cacheCalls[m].op = "hasPost")
  /\ \A k, m \in 1..Len(csvRows) :
       csvRows[k].post_id = csvRows[m].post_id => k = m
  /\ cacheValid => idCache = {csvRows[k].post_id : k \in 1..Len(csvRows)}

====
